---------------------------- MODULE Spec2Model ----------------------------
(***************************************************************************)
(* A model of the incremental G-code lexer of klippy/chelper               *)
(* (gcode_lexer.c).  The lexer is a byte-driven state machine: every field *)
(* of struct GCodeLexer is a field of the record `lexer`, every callback   *)
(* invocation is appended to `out`, and gcode_lexer_scan is the operator   *)
(* gcode_lexer_scan below, a loop over the bytes of one buffer.            *)
(*                                                                         *)
(* Bytes are one-character strings; the bytes with no printable form have  *)
(* names (NL, NUL, TAB, VT, CR).  Token texts are sequences of bytes.      *)
(* The lexer is created with no location slot (location = NULL), so the    *)
(* TOKEN_START / TOKEN_STOP macros write nothing.  malloc and realloc are  *)
(* taken to succeed.                                                       *)
(***************************************************************************)
EXTENDS Integers, Sequences, FiniteSets, TLC

VARIABLES
    lexer,      \* struct GCodeLexer
    out,        \* the callbacks invoked so far: [k, v, at]
    raised,     \* history: the ERROR(...) macro expansions so far: [msg, at]
    input,      \* history: every byte scanned since creation or the last reset
    start,      \* history: the lexer as it was at creation or after the last reset
    fail,       \* environment: the fail-th callback invocation returns false (0: none)
    junk,       \* environment: the value read from a byte of the heap never written
    left,       \* environment: the number of bytes the caller has yet to supply
    last,       \* history: the last operation called: new, scan, finish or reset
    resumed,    \* history: lexer->state when the last operation was called
    parser,     \* struct GCodeParser: the parser that owns the lexer, if one does
    peer        \* the other lexer/parser instances of the process

vars == <<lexer, out, raised, input, start, fail, junk, left, last, resumed,
          parser, peer>>

----------------------------------------------------------------------------
(* Bytes *)

NL  == "LF"
NUL == "NUL"
TAB == "TAB"
VT  == "VT"
CR  == "CR"
BS  == "\\"
DQ  == "\""
JUNK == "?junk"
BQ  == "BQ"

ENTER_EXPR == "{"
EXIT_EXPR  == "}"

LowerSeq == <<"a","b","c","d","e","f","g","h","i","j","k","l","m",
              "n","o","p","q","r","s","t","u","v","w","x","y","z">>
UpperSeq == <<"A","B","C","D","E","F","G","H","I","J","K","L","M",
              "N","O","P","Q","R","S","T","U","V","W","X","Y","Z">>
DigitSeq == <<"0","1","2","3","4","5","6","7","8","9">>

Range(s) == {s[i] : i \in DOMAIN s}
Lower  == Range(LowerSeq)
Upper  == Range(UpperSeq)
Digits == Range(DigitSeq)

IndexOf(s, ch) == CHOOSE i \in DOMAIN s : s[i] = ch

\* ch - '0' for a digit
DigitVal(ch) == IndexOf(DigitSeq, ch) - 1

\* the byte of a digit value 0..9
DigitChar(d) == DigitSeq[d + 1]

ToUpper(ch) == IF ch \in Lower THEN UpperSeq[IndexOf(LowerSeq, ch)] ELSE ch
ToLower(ch) == IF ch \in Upper THEN LowerSeq[IndexOf(UpperSeq, ch)] ELSE ch

\* the printable ASCII bytes 32..126 in order
AsciiPrintable ==
    <<" ","!",DQ,"#","$","%","&","'","(",")","*","+",",","-",".","/">>
    \o DigitSeq \o <<":",";","<","=",">","?","@">>
    \o UpperSeq \o <<"[",BS,"]","^","_",BQ>>
    \o LowerSeq \o <<"{","|","}","~">>

RECURSIVE Decimal(_)
Decimal(n) == IF n < 10 THEN DigitChar(n) ELSE Decimal(n \div 10) \o DigitChar(n % 10)

\* (char) n for a value 0..255
Chr(n) ==
    IF n = 0 THEN NUL
    ELSE IF n = 10 THEN NL
    ELSE IF n = 9 THEN TAB
    ELSE IF n = 11 THEN VT
    ELSE IF n = 13 THEN CR
    ELSE IF n >= 32 /\ n <= 126 THEN AsciiPrintable[n - 31]
    ELSE "\\" \o Decimal(n)

Space == {" ", TAB, VT, CR}

----------------------------------------------------------------------------
(* int64_t: four 16-bit limbs, least significant first, because the        *)
(* accumulator int_value must reach INT64_MAX.                              *)

LimbBase == 65536

Int64(n) == <<n % LimbBase, n \div LimbBase, 0, 0>>

INT64_MAX == <<65535, 65535, 65535, 32767>>

UNICODE_MAX == <<65535, 16, 0, 0>>

\* x > y
I64Greater(x, y) ==
    \E i \in 1..4 : x[i] > y[i] /\ \A j \in (i+1)..4 : x[j] = y[j]

RECURSIVE I64SubAt(_, _, _)
I64SubAt(x, v, i) ==
    IF v = 0 \/ i > 4 THEN x
    ELSE IF x[i] >= v THEN [x EXCEPT ![i] = @ - v]
    ELSE I64SubAt([x EXCEPT ![i] = @ + LimbBase - v], 1, i + 1)

\* x - v for a small v <= x
I64Sub(x, v) == I64SubAt(x, v, 1)

RECURSIVE I64DivAt(_, _, _, _)
I64DivAt(x, b, i, r) ==
    IF i = 0 THEN x
    ELSE LET cur == r * LimbBase + x[i]
         IN I64DivAt([x EXCEPT ![i] = cur \div b], b, i - 1, cur % b)

\* x / b for a small b
I64Div(x, b) == I64DivAt(x, b, 4, 0)

RECURSIVE I64MulAddAt(_, _, _, _)
I64MulAddAt(x, b, i, carry) ==
    IF i > 4 THEN x
    ELSE LET cur == x[i] * b + carry
         IN I64MulAddAt([x EXCEPT ![i] = cur % LimbBase], b, i + 1, cur \div LimbBase)

\* x * b + v for small b and v, modulo 2^64
I64MulAdd(x, b, v) == I64MulAddAt(x, b, 1, v)

\* the conversion of an int64_t to int: the low 32 bits, as a signed value
I64ToInt(x) ==
    IF x[2] >= 32768 THEN (x[2] - LimbBase) * LimbBase + x[1]
    ELSE x[2] * LimbBase + x[1]

\* the conversion of an int64_t to char: the low 8 bits
I64ToChar(x) == Chr(x[1] % 256)

\* the decimal text of an int
IntText(n) == IF n < 0 THEN <<"-", Decimal(0 - n)>> ELSE <<Decimal(n)>>

----------------------------------------------------------------------------
(* The machine: the lexer's fields together with the environment and the   *)
(* locals of gcode_lexer_scan.  ok is the value a helper returned, back is *)
(* set by BACK_UP, n counts the bytes consumed.                            *)

LexerFields ==
    {"state", "token_str", "token_length", "token_limit", "error_str",
     "error_limit", "expr_nesting", "int_value", "digit_count", "line",
     "column", "arg_mode", "after_str", "in_arg_value"}

\* the byte being processed is byte number m.n + 1 of the input
At(m) == m.n + 1

CStrFrom(buf, i, heap) ==
    IF \A k \in i..Len(buf) : buf[k] # NUL
    THEN SubSeq(buf, i, Len(buf)) \o (IF heap = NUL THEN <<>> ELSE <<JUNK>>)
    ELSE SubSeq(buf, i,
                (CHOOSE k \in i..Len(buf) :
                     buf[k] = NUL /\ \A j \in i..(k - 1) : buf[j] # NUL) - 1)

\* token_str read as a C string: up to the first NUL in memory, wherever
\* token_length stands; past the bytes ever written it reads the heap
CStr(m) == CStrFrom(m.token_str, 1, m.junk)

\* one callback invocation; it returns false when it is the fail-th; str is
\* the token buffer as the callback finds it
callback(m, kind, value) ==
    [m EXCEPT !.out = Append(@, [k |-> kind, v |-> value, at |-> At(m),
                                    str |-> CStr(m)]),
              !.ok = (Len(m.out) + 1 # m.fail)]

error_printf(m, limit, msg) ==
    [m EXCEPT !.error_limit = IF @ < limit THEN 256 ELSE @,
              !.error_str = msg]

\* formats the message into error_str; no callback is invoked
emit_error(m, msg) ==
    [error_printf(m, 256, msg) EXCEPT
        !.raised = Append(@, [msg |-> msg, at |-> At(m)])]

ERROR(m, msg) == [emit_error(m, msg) EXCEPT !.state = "SCAN_ERROR"]

\* were the buffer grown by one byte at a time
token_alloc_one_more(m) ==
    [m EXCEPT !.token_limit = IF @ = 0 THEN 128 ELSE @ + 1, !.ok = TRUE]

token_alloc(m) ==
    [m EXCEPT !.token_limit = IF @ = 0 THEN 128 ELSE @ * 2, !.ok = TRUE]

token_char(m, ch) ==
    LET m1 == IF m.token_length = m.token_limit THEN token_alloc(m) ELSE m
        i  == m1.token_length + 1
    IN [m1 EXCEPT
          !.token_str = IF i <= Len(@) THEN [@ EXCEPT ![i] = ch] ELSE Append(@, ch),
          !.token_length = i,
          !.ok = TRUE]

terminate_token(m) == token_char(m, NUL)

\* for a..f and for every upper-case letter A..Z a value; -1 otherwise
hex_digit_to_int(ch) ==
    IF ch \in Digits THEN DigitVal(ch)
    ELSE IF ch \in {"a","b","c","d","e","f"} THEN 10 + IndexOf(LowerSeq, ch) - 1
    ELSE IF ch \in Upper THEN 10 + IndexOf(UpperSeq, ch) - 1
    ELSE -1

\* int8_t arithmetic of digit_count++
Int8(n) == ((n + 128) % 256) - 128

add_safe_digit(m, value, base) ==
    [m EXCEPT !.int_value = I64MulAdd(@, base, value),
              !.digit_count = Int8(@ + 1)]

is_ident_char(ch) == ch \in Lower \cup Upper \cup Digits \cup {"_", "$"}

is_symbol_char(ch) ==
    ch \in {BQ, "~", "!", "@", "#", "%", "^", "&", "*", "(", ")", "-", "+",
            "=", "{", "[", "}", "]", "|", BS, ":", ",", "<", ".", ">", "?", "/"}

continue_symbol(c1, c2) ==
    IF c1 = "*" THEN c2 = "*"
    ELSE IF c1 \in {"<", ">", "="} THEN c2 = "="
    ELSE FALSE

free_token(m) == [m EXCEPT !.token_length = 0]

\* the token is handed over as it stands: no NUL is written after it
emit_symbol(m) ==
    LET r == callback(m, "keyword", CStr(m))
    IN IF ~r.ok THEN [free_token(r) EXCEPT !.state = "SCAN_ERROR"]
       ELSE free_token(r)

emit_char_symbol(m, ch) ==
    LET t == terminate_token(token_char(m, ch))
        r == callback(t, "keyword", CStr(t))
    IN IF ~r.ok THEN [free_token(r) EXCEPT !.state = "SCAN_ERROR"]
       ELSE free_token(r)

emit_bridge(m) ==
    LET r == callback(m, "bridge", <<>>)
    IN IF ~r.ok THEN [r EXCEPT !.state = "SCAN_ERROR"] ELSE r

\* the callback's result is dropped
emit_end_of_statement(m) ==
    [callback(m, "end_statement", <<>>) EXCEPT !.state = "SCAN_NEWLINE", !.ok = TRUE]

emit_str(m) ==
    LET t == terminate_token(m)
        r == callback(t, "str_literal", CStr(t))
    IN IF ~r.ok THEN [free_token(r) EXCEPT !.state = "SCAN_ERROR"]
       ELSE free_token(r)

emit_possible_str(m) ==
    IF m.token_length # 0 THEN emit_str(m) ELSE [m EXCEPT !.ok = TRUE]

emit_ident(m) ==
    LET t == terminate_token(m)
        r == callback(t, "identifier", CStr(t))
    IN IF ~r.ok THEN [free_token(r) EXCEPT !.state = "SCAN_ERROR"]
       ELSE free_token(r)

\* name[1..length) are all digits
AllDigitsAfterFirst(name, length) ==
    \A i \in 2..length : name[i] \in Digits

\* strcmp reads token_str as a C string, before emit_ident terminates it
enter_args(m) ==
    LET s      == [m EXCEPT !.state = "SCAN_ARGS"]
        name   == s.token_str
        length == s.token_length
    IN IF CStr(s) = <<"M","1","1","7">> \/ CStr(s) = <<"E","C","H","O">>
       THEN emit_ident([s EXCEPT !.arg_mode = "ARG_RAW"])
       ELSE IF length > 1 /\ name[1] \in Upper
       THEN IF AllDigitsAfterFirst(name, length)
            THEN emit_ident([s EXCEPT !.arg_mode = "ARG_TRADITIONAL"])
            ELSE emit_ident([s EXCEPT !.arg_mode = "ARG_EXTENDED"])
       ELSE emit_ident([s EXCEPT !.arg_mode = "ARG_EXTENDED"])

\* the parameter is an int: the 64-bit accumulator is converted on the call
emit_int(m, value) ==
    LET r == callback(m, "int_literal", IntText(I64ToInt(value)))
    IN IF ~r.ok THEN [r EXCEPT !.state = "SCAN_ERROR"] ELSE r

EMIT_INT(m) == emit_int(m, m.int_value)

----------------------------------------------------------------------------
(* strtod, on the texts the lexer hands it (they start with a digit or a   *)
(* dot): the longest prefix that is a decimal or hexadecimal floating      *)
(* constant, and its value as mantissa digits and an exponent.             *)

StrtodHex == Digits \cup {"a","b","c","d","e","f","A","B","C","D","E","F"}

RECURSIVE RunEnd(_, _, _)
\* the first index at or after i whose byte is not in set
RunEnd(t, i, set) ==
    IF i <= Len(t) /\ t[i] \in set THEN RunEnd(t, i + 1, set) ELSE i

Slice(t, i, j) == SubSeq(t, i, j - 1)

RECURSIVE StripLeft(_)
StripLeft(d) == IF d # <<>> /\ Head(d) = "0" THEN StripLeft(Tail(d)) ELSE d

RECURSIVE StripRight(_)
StripRight(d) ==
    IF d # <<>> /\ d[Len(d)] = "0" THEN StripRight(SubSeq(d, 1, Len(d) - 1)) ELSE d

RECURSIVE DecimalValue(_, _)
DecimalValue(d, acc) ==
    IF d = <<>> THEN acc ELSE DecimalValue(Tail(d), acc * 10 + DigitVal(Head(d)))

\* the exponent part at index b, if there is one: where it ends and its value
StrtodExponentAt(t, b, c, d) ==
    IF d > c
    THEN [end |-> d,
          e   |-> IF t[c - 1] = "-" THEN 0 - DecimalValue(Slice(t, c, d), 0)
                  ELSE DecimalValue(Slice(t, c, d), 0)]
    ELSE [end |-> b, e |-> 0]

StrtodExponent(t, b, exp) ==
    LET c == IF b + 1 <= Len(t) /\ t[b + 1] \in {"-", "+"} THEN b + 2 ELSE b + 1
    IN StrtodExponentAt(t, b, c,
           IF b <= Len(t) /\ t[b] \in exp THEN RunEnd(t, c, Digits) ELSE c)

\* the value: the radix, the mantissa digits without leading and trailing
\* zeros, and the exponent that goes with them
StrtodValue(all, mant, fraclen, e, radix, scale) ==
    <<radix>> \o [k \in DOMAIN mant |-> ToLower(mant[k])]
    \o IntText(IF mant = <<>> THEN 0
               ELSE e + scale * (Len(all) - Len(mant) - fraclen))

StrtodDigits(all, fraclen, e, radix, scale) ==
    StrtodValue(all, StripRight(all), fraclen, e, radix, scale)

\* whole part t[i..a-1], fraction t[a+1..b-1] when b > a, exponent x
StrtodParts(t, i, a, b, x, radix, scale) ==
    [some |-> a > i \/ b > a + 1,
     len  |-> x.end - 1,
     v    |-> StrtodDigits(
                  StripLeft(Slice(t, i, a)
                            \o (IF b > a THEN Slice(t, a + 1, b) ELSE <<>>)),
                  IF b > a THEN b - a - 1 ELSE 0, x.e, radix, scale)]

StrtodFraction(t, i, a, b, exp, radix, scale) ==
    StrtodParts(t, i, a, b, StrtodExponent(t, b, exp), radix, scale)

StrtodWhole(t, i, a, set, exp, radix, scale) ==
    StrtodFraction(t, i, a,
        IF a <= Len(t) /\ t[a] = "." THEN RunEnd(t, a + 1, set) ELSE a,
        exp, radix, scale)

\* [some |-> a number was converted, len |-> bytes converted, v |-> the
\* value] for mantissa digits `set`, exponent letters `exp`, the mantissa
\* starting at index i
StrtodFrom(t, i, set, exp, radix, scale) ==
    StrtodWhole(t, i, RunEnd(t, i, set), set, exp, radix, scale)

StrtodPick(hex, dec) ==
    IF hex.some THEN hex
    ELSE IF dec.some THEN dec
    ELSE [some |-> FALSE, len |-> 0, v |-> <<"10", "0">>]

strtod(t) ==
    StrtodPick(IF Len(t) >= 2 /\ t[1] = "0" /\ t[2] \in {"x", "X"}
               THEN StrtodFrom(t, 3, StrtodHex, {"p", "P"}, "0x", 4)
               ELSE [some |-> FALSE, len |-> 0, v |-> <<>>],
               StrtodFrom(t, 1, Digits, {"e", "E"}, "10", 1))

\* a callback that returns false puts the lexer in the error state
callback_or_error(r) == IF ~r.ok THEN [r EXCEPT !.state = "SCAN_ERROR"] ELSE r

\* the conversion must consume the whole token
emit_converted(f, text, conv) ==
    IF conv.len < Len(text)
    THEN [ERROR(f, <<"Invalid float ">> \o text) EXCEPT !.ok = FALSE]
    ELSE callback_or_error(callback(f, "float_literal", conv.v))

emit_float(m) ==
    emit_converted(free_token(terminate_token(m)), CStr(terminate_token(m)),
                   strtod(CStr(terminate_token(m))))

\* lex_identifier is called with the unterminated token; on false the state
\* is left as it is
emit_keyword_or_identifier(m) ==
    free_token(callback(m, "identifier", CStr(m)))

\* were the test to fire one value early
digit_exceeds_or_reaches(m, value, base, max) ==
    ~I64Greater(I64Div(I64Sub(max, value), base), m.int_value)

digit_exceeds(m, value, base, max) ==
    I64Greater(m.int_value, I64Div(I64Sub(max, value), base))

add_digit(m, value, base, max, err) ==
    IF digit_exceeds(m, value, base, max)
    THEN [free_token(ERROR(m, err)) EXCEPT !.ok = FALSE]
    ELSE [add_safe_digit(m, value, base) EXCEPT !.ok = TRUE]

enter_expr(m) ==
    LET r == emit_char_symbol(m, ENTER_EXPR)
    IN IF r.ok THEN [r EXCEPT !.state = "SCAN_EXPR", !.expr_nesting = 1] ELSE r

\* were a key without a value to get an empty value in every mode
end_arg_segment_empty_value_in_every_mode(m, ch) ==
    LET tail(x) ==
            IF ch = ";" THEN [x EXCEPT !.state = "SCAN_COMMENT"]
            ELSE IF ch = NL THEN emit_end_of_statement(x)
            ELSE [x EXCEPT !.state = "SCAN_ARGS"]
    IN IF ~m.in_arg_value THEN tail(emit_str(m)) ELSE tail(m)

end_arg_segment(m, ch) ==
    LET tail(x) ==
            IF ch = ";" THEN [x EXCEPT !.state = "SCAN_COMMENT"]
            ELSE IF ch = NL THEN emit_end_of_statement(x)
            ELSE [x EXCEPT !.state = "SCAN_ARGS"]
    IN CASE m.arg_mode = "ARG_TRADITIONAL" ->
              IF ~m.in_arg_value THEN tail(emit_str(m)) ELSE tail(m)
         [] m.arg_mode = "ARG_EXTENDED" ->
              IF ~m.in_arg_value
              THEN LET e == ERROR(m, <<"Expected '=' after parameter name">>)
                   IN IF ch = NL THEN emit_end_of_statement(e) ELSE e
              ELSE tail(m)
         [] m.arg_mode = "ARG_RAW" ->
              IF ch # CR /\ ch # NL
              THEN LET b == emit_bridge(m)
                   IN IF b.ok THEN [token_char(b, ch) EXCEPT !.state = "SCAN_ARG_VALUE"]
                      ELSE b
              ELSE tail(m)

----------------------------------------------------------------------------
(* gcode_lexer_scan: one operator per case of the switch on lexer->state.  *)

St(m, s) == [m EXCEPT !.state = s]

\* if (helper(...)) lexer->state = s;
IfOk(r, s) == IF r.ok THEN St(r, s) ELSE r

BACK_UP(m) == [m EXCEPT !.back = TRUE]

TOKEN_CHAR_UPPER(m, ch) == token_char(m, ToUpper(ch))

TOKEN_CHAR_LOWER(m, ch) == token_char(m, ToLower(ch))

ResetNumber(m) == [m EXCEPT !.int_value = Int64(0), !.digit_count = 0]

scan_NEWLINE(m0, ch) ==
    LET m == [m0 EXCEPT !.expr_nesting = 0]
    IN IF ch \in {"N", "n"} THEN St(m, "SCAN_LINENO")
       ELSE IF ch = ";" THEN St(m, "SCAN_EMPTY_LINE_COMMENT")
       ELSE IF ch = NL \/ ch \in Space THEN m
       ELSE St(BACK_UP(m), "SCAN_COMMAND_NAME")

scan_ERROR(m, ch) == IF ch = NL THEN St(m, "SCAN_NEWLINE") ELSE m

scan_LINENO(m, ch) ==
    IF ch = NL THEN St(m, "SCAN_NEWLINE")
    ELSE IF ch \in Space THEN St(m, "SCAN_AFTER_LINENO")
    ELSE IF ch = ";" THEN St(m, "SCAN_EMPTY_LINE_COMMENT")
    ELSE IF ch = DQ THEN ERROR(m, <<"String not allowed in line number">>)
    ELSE IF ch = ENTER_EXPR THEN ERROR(m, <<"Expression not allowed in line number">>)
    ELSE m

scan_AFTER_LINENO(m, ch) ==
    IF ch = NL THEN St(m, "SCAN_NEWLINE")
    ELSE IF ch \in Space THEN m
    ELSE IF ch = ";" THEN St(m, "SCAN_EMPTY_LINE_COMMENT")
    ELSE St(BACK_UP(m), "SCAN_COMMAND_NAME")

scan_COMMAND_NAME(m, ch) ==
    IF ch = ENTER_EXPR
    THEN ERROR(free_token(m), <<"Expressions not allowed in command name">>)
    ELSE IF ch = DQ
    THEN ERROR(free_token(m), <<"Strings not allowed in command name">>)
    ELSE IF ch = NL THEN emit_end_of_statement(emit_ident(m))
    ELSE IF ch \in Space THEN enter_args(m)
    ELSE IF ch = ";" THEN IfOk(emit_ident(m), "SCAN_COMMENT")
    ELSE TOKEN_CHAR_UPPER(m, ch)

scan_ARGS(m, ch) ==
    IF ch = ENTER_EXPR
    THEN IfOk(emit_char_symbol([m EXCEPT !.in_arg_value = FALSE], ch), "SCAN_EXPR")
    ELSE IF ch = DQ
    THEN CASE m.arg_mode = "ARG_TRADITIONAL" ->
                [m EXCEPT !.after_str = "SCAN_AFTER_TRADITIONAL_KEY",
                          !.state = "SCAN_STR"]
           [] m.arg_mode = "ARG_EXTENDED" ->
                [m EXCEPT !.in_arg_value = FALSE,
                          !.after_str = "SCAN_AFTER_EXPR",
                          !.state = "SCAN_STR"]
           [] m.arg_mode = "ARG_RAW" -> token_char(m, ch)
    ELSE IF ch = NL THEN emit_end_of_statement(m)
    ELSE IF ch = ";" THEN St(m, "SCAN_COMMENT")
    ELSE IF ch = "=" THEN ERROR(m, <<"Expected parameter name before '='">>)
    ELSE IF ch \in Space THEN m
    ELSE CASE m.arg_mode = "ARG_TRADITIONAL" ->
                LET r == emit_str(TOKEN_CHAR_UPPER(m, ch))
                IN IF r.ok
                   THEN [r EXCEPT !.in_arg_value = FALSE,
                                  !.state = "SCAN_AFTER_TRADITIONAL_KEY"]
                   ELSE r
           [] m.arg_mode = "ARG_EXTENDED" ->
                [TOKEN_CHAR_UPPER(m, ch) EXCEPT !.in_arg_value = FALSE,
                                                !.state = "SCAN_EXTENDED_KEY"]
           [] m.arg_mode = "ARG_RAW" -> St(token_char(m, ch), "SCAN_ARG_VALUE")

scan_EXTENDED_KEY(m, ch) ==
    IF ch = NL \/ ch = ";" THEN end_arg_segment(free_token(m), ch)
    ELSE IF ch \in Space THEN IfOk(emit_possible_str(m), "SCAN_AFTER_EXTENDED_KEY")
    ELSE IF ch = "=" THEN IfOk(emit_possible_str(m), "SCAN_AFTER_EXTENDED_SEPARATOR")
    ELSE IF ch = ENTER_EXPR
    THEN LET r == emit_possible_str(m)
             b == IF r.ok THEN emit_bridge(r) ELSE r
         IN IF b.ok THEN enter_expr(b) ELSE b
    ELSE IF ch = DQ
    THEN LET r == emit_possible_str(m)
             b == IF r.ok THEN emit_bridge(r) ELSE r
         IN IF b.ok
            THEN [b EXCEPT !.after_str = "SCAN_AFTER_EXPR", !.state = "SCAN_STR"]
            ELSE b
    ELSE TOKEN_CHAR_UPPER(m, ch)

scan_AFTER_EXTENDED_KEY(m, ch) ==
    IF ch = "=" THEN St(m, "SCAN_AFTER_EXTENDED_SEPARATOR")
    ELSE IF ch \in Space THEN m
    ELSE IF ch = ";" \/ ch = NL THEN end_arg_segment(m, ch)
    ELSE end_arg_segment([m EXCEPT !.in_arg_value = TRUE], ch)


\* SCAN_AFTER_EXTENDED_SEPARATOR without BACK_UP on the first byte of a value
scan_AFTER_EXTENDED_SEPARATOR_no_back_up(m, ch) ==
    IF ch = NL \/ ch = ";" THEN end_arg_segment(m, ch)
    ELSE IF ch \in Space THEN m
    ELSE [m EXCEPT !.in_arg_value = TRUE, !.state = "SCAN_ARG_VALUE"]

scan_AFTER_EXTENDED_SEPARATOR(m, ch) ==
    IF ch = NL \/ ch = ";" THEN end_arg_segment(m, ch)
    ELSE IF ch \in Space THEN m
    ELSE IF ch = DQ
    THEN [m EXCEPT !.in_arg_value = TRUE,
                   !.after_str = "SCAN_AFTER_EXPR",
                   !.state = "SCAN_STR"]
    ELSE IF ch = ENTER_EXPR THEN enter_expr([m EXCEPT !.in_arg_value = TRUE])
    ELSE [BACK_UP(m) EXCEPT !.in_arg_value = TRUE, !.state = "SCAN_ARG_VALUE"]

scan_AFTER_TRADITIONAL_KEY(m, ch) ==
    IF ch = "=" THEN m
    ELSE IF ch = NL \/ ch = ";" \/ ch \in Space THEN end_arg_segment(m, ch)
    ELSE IF ch = DQ
    THEN [m EXCEPT !.after_str = "SCAN_ARG_VALUE", !.state = "SCAN_STR"]
    ELSE IF ch = ENTER_EXPR THEN enter_expr([m EXCEPT !.in_arg_value = TRUE])
    ELSE [BACK_UP(m) EXCEPT !.state = "SCAN_ARG_VALUE", !.in_arg_value = TRUE]


\* SCAN_ARG_VALUE with the blank kept in the value in every mode
scan_ARG_VALUE_blank_kept(m, ch) ==
    IF ch = NL THEN emit_end_of_statement(emit_possible_str(m))
    ELSE IF ch = ";" THEN IfOk(emit_possible_str(m), "SCAN_COMMENT")
    ELSE token_char(m, ch)

scan_ARG_VALUE(m, ch) ==
    IF ch = NL THEN emit_end_of_statement(emit_possible_str(m))
    ELSE IF ch = ";"
    THEN IF m.arg_mode = "ARG_RAW" THEN token_char(m, ch)
         ELSE IfOk(emit_possible_str(m), "SCAN_COMMENT")
    ELSE IF ch \in Space
    THEN IF m.arg_mode = "ARG_RAW" THEN token_char(m, ch)
         ELSE IfOk(emit_possible_str(m), "SCAN_ARGS")
    ELSE IF ch = DQ
    THEN LET r == emit_possible_str(m)
             b == IF r.ok THEN emit_bridge(r) ELSE r
         IN IF b.ok
            THEN [b EXCEPT !.after_str = "SCAN_AFTER_EXPR", !.state = "SCAN_STR"]
            ELSE b
    ELSE IF ch = ENTER_EXPR
    THEN LET r == emit_possible_str(m)
             b == IF r.ok THEN emit_bridge(r) ELSE r
         IN IF b.ok THEN enter_expr(b) ELSE b
    ELSE token_char(m, ch)

scan_COMMENT(m, ch) == IF ch = NL THEN emit_end_of_statement(m) ELSE m

\* were the newline of a whole-line comment to end a statement
scan_EMPTY_LINE_COMMENT_ends_statement(m, ch) ==
    IF ch = NL THEN emit_end_of_statement(m) ELSE m

scan_EMPTY_LINE_COMMENT(m, ch) == IF ch = NL THEN St(m, "SCAN_NEWLINE") ELSE m

scan_EXPR(m, ch) ==
    IF ch = NL THEN St(ERROR(m, <<"Unterminated expression">>), "SCAN_NEWLINE")
    ELSE IF ch \in Space THEN m
    ELSE IF ch = "("
    THEN emit_char_symbol([m EXCEPT !.expr_nesting = @ + 1], ch)
    ELSE IF ch = ")"
    THEN emit_char_symbol([m EXCEPT !.expr_nesting = IF @ # 0 THEN @ - 1 ELSE @], ch)
    ELSE IF ch = EXIT_EXPR
    THEN IfOk(emit_char_symbol([m EXCEPT !.expr_nesting = 0], ch), "SCAN_AFTER_EXPR")
    ELSE IF ch = "0" THEN St(token_char(m, ch), "SCAN_NUMBER_BASE")
    ELSE IF ch \in {"'", BQ} THEN ERROR(m, <<"Unexpected character ", ch>>)
    ELSE IF ch = "." THEN St(token_char(m, ch), "SCAN_DOT")
    ELSE IF ch = DQ THEN [m EXCEPT !.after_str = "SCAN_EXPR", !.state = "SCAN_STR"]
    ELSE IF ch \in Digits
    THEN [token_char(m, ch) EXCEPT !.int_value = Int64(DigitVal(ch)),
                                   !.digit_count = 1,
                                   !.state = "SCAN_DECIMAL"]
    ELSE IF is_symbol_char(ch) THEN token_char(St(m, "SCAN_SYMBOL"), ch)
    ELSE TOKEN_CHAR_LOWER(St(m, "SCAN_IDENTIFIER"), ch)

scan_AFTER_EXPR(m, ch) ==
    IF m.arg_mode = "ARG_RAW" THEN end_arg_segment(m, ch)
    ELSE IF ch = NL \/ ch = ";" THEN end_arg_segment(m, ch)
    ELSE IF ch \in Space
    THEN IF m.arg_mode = "ARG_EXTENDED" /\ ~m.in_arg_value
         THEN St(m, "SCAN_AFTER_EXTENDED_KEY")
         ELSE end_arg_segment(m, ch)
    ELSE IF m.arg_mode = "ARG_TRADITIONAL"
    THEN IF m.in_arg_value
         THEN LET b == IF ch # DQ /\ ch # ENTER_EXPR THEN emit_bridge(m) ELSE m
              IN BACK_UP(St(b, "SCAN_ARG_VALUE"))
         ELSE BACK_UP(St(m, "SCAN_AFTER_TRADITIONAL_KEY"))
    ELSE LET b == IF ch # DQ /\ ch # ENTER_EXPR THEN emit_bridge(m) ELSE m
         IN BACK_UP(St(b, IF b.in_arg_value THEN "SCAN_ARG_VALUE"
                          ELSE "SCAN_EXTENDED_KEY"))

scan_SYMBOL(m, ch) ==
    IF m.token_length = 0
       \/ (m.token_length = 1 /\ continue_symbol(m.token_str[1], ch))
    THEN token_char(m, ch)
    ELSE LET r == emit_symbol(m)
         IN IF ~r.ok THEN r ELSE BACK_UP(St(r, "SCAN_EXPR"))

scan_IDENTIFIER(m, ch) ==
    IF is_ident_char(ch) THEN TOKEN_CHAR_LOWER(m, ch)
    ELSE LET r == emit_keyword_or_identifier(m)
         IN IF ~r.ok THEN r
            ELSE IF ch = "." THEN St(token_char(r, ch), "SCAN_DOT")
            ELSE BACK_UP(St(r, "SCAN_EXPR"))

\* wctomb in the "C" locale (the program never calls setlocale): one byte
\* for a code below 128, failure (-1) above; on failure '?' is stored
add_str_wchar(m) ==
    IF I64Greater(m.int_value, Int64(127)) THEN token_char(m, "?")
    ELSE token_char(m, I64ToChar(m.int_value))

\* CASE_STR_ESC: the escape letters and the bytes they stand for
StrEscapes ==
    [a |-> Chr(7), b |-> Chr(8), e |-> Chr(27), f |-> Chr(12), n |-> Chr(10),
     r |-> Chr(13), t |-> Chr(9), v |-> Chr(11)]
    @@ (BS :> BS) @@ ("'" :> "'") @@ (DQ :> DQ) @@ ("?" :> "?")

scan_STR(m, ch) ==
    IF ch = BS THEN St(m, "SCAN_STR_ESCAPE")
    ELSE IF ch = DQ
    THEN LET r == emit_str(m) IN IF r.ok THEN St(r, r.after_str) ELSE r
    ELSE IF ch = NL
    THEN St(free_token(ERROR(m, <<"Unterminated string">>)), "SCAN_NEWLINE")
    ELSE token_char(m, ch)

scan_STR_ESCAPE(m, ch) ==
    IF ch \in DOMAIN StrEscapes THEN IfOk(token_char(m, StrEscapes[ch]), "SCAN_STR")
    ELSE IF ch = "x" THEN St(ResetNumber(m), "SCAN_STR_HEX")
    ELSE IF ch = "u" THEN St(ResetNumber(m), "SCAN_STR_LOW_UNICODE")
    ELSE IF ch = "U" THEN St(ResetNumber(m), "SCAN_STR_HIGH_UNICODE")
    ELSE IF ch = NL
    THEN St(free_token(ERROR(m, <<"Unterminated string">>)), "SCAN_NEWLINE")
    ELSE IF ch \in Digits THEN BACK_UP(St(ResetNumber(m), "SCAN_STR_OCTAL"))
    ELSE free_token(ERROR(m, <<"Illegal string escape ", BS, ch>>))

scan_STR_OCTAL(m, ch) ==
    IF ch \in {"0","1","2","3","4","5","6","7"}
    THEN LET r == add_digit(m, DigitVal(ch), 8, Int64(255),
                            <<"Octal escape (", BS, "nnn) exceeds byte value">>)
         IN IF r.ok /\ r.digit_count = 3
            THEN IfOk(token_char(r, I64ToChar(r.int_value)), "SCAN_STR")
            ELSE r
    ELSE IF ch \in {"8", "9"}
    THEN free_token(ERROR(m, <<"Illegal digit in octal escape (", BS, "nnn)">>))
    ELSE BACK_UP(IfOk(token_char(m, I64ToChar(m.int_value)), "SCAN_STR"))

scan_STR_HEX(m, ch) ==
    LET digit_value == hex_digit_to_int(ch)
    IN IF digit_value = -1
       THEN IF m.digit_count = 0
            THEN free_token(ERROR(m,
                    <<"Hex string escape (", BS, "x) requires at least one digit">>))
            ELSE BACK_UP(IfOk(token_char(m, I64ToChar(m.int_value)), "SCAN_STR"))
       ELSE LET r == add_digit(m, digit_value, 16, Int64(255),
                               <<"Hex escape exceeds byte value">>)
            IN IF ~r.ok THEN St(r, "SCAN_ERROR") ELSE r

scan_STR_LOW_UNICODE(m, ch) ==
    LET digit_value == hex_digit_to_int(ch)
    IN IF digit_value = -1
       THEN free_token(ERROR(m,
               <<"Low unicode escape (", BS, "u) requires exactly four digits">>))
       ELSE LET r == add_safe_digit(m, digit_value, 16)
            IN IF r.digit_count = 4 THEN IfOk(add_str_wchar(r), "SCAN_STR") ELSE r

scan_STR_HIGH_UNICODE(m, ch) ==
    LET digit_value == hex_digit_to_int(ch)
    IN IF digit_value = -1
       THEN free_token(ERROR(m,
               <<"High unicode escape (", BS, "U) requires exactly eight digits">>))
       ELSE LET r == add_digit(m, digit_value, 16, UNICODE_MAX,
                       <<"High unicode escape (", BS, "U) exceeds unicode value">>)
            IN IF r.ok /\ r.digit_count = 8
               THEN IfOk(add_str_wchar(r), "SCAN_STR")
               ELSE r

scan_NUMBER_BASE(m, ch) ==
    IF ch \in {"b", "B"} THEN St(ResetNumber(free_token(m)), "SCAN_BINARY")
    ELSE IF ch \in {"x", "X"} THEN St(ResetNumber(token_char(m, ch)), "SCAN_HEX")
    ELSE IF ch = "." THEN St(token_char(m, ch), "SCAN_DECIMAL_FRACTION")
    ELSE IF ch \in {"e", "E"} THEN St(token_char(m, ch), "SCAN_DECIMAL_EXPONENT_SIGN")
    ELSE IF ch \in Digits
    THEN BACK_UP([free_token(m) EXCEPT !.int_value = Int64(0), !.state = "SCAN_OCTAL"])
    ELSE BACK_UP(IfOk(emit_int(free_token(m), Int64(0)), "SCAN_EXPR"))

scan_DECIMAL(m, ch) ==
    IF ch = "." THEN St(token_char(m, ch), "SCAN_DECIMAL_FRACTION")
    ELSE IF ch \in {"e", "E"} THEN St(token_char(m, ch), "SCAN_DECIMAL_EXPONENT_SIGN")
    ELSE IF ch \in Digits
    THEN LET t == token_char(m, ch)
         IN IF digit_exceeds(t, DigitVal(ch), 10, INT64_MAX)
            THEN St(t, "SCAN_DECIMAL_FLOAT")
            ELSE add_safe_digit(t, DigitVal(ch), 10)
    ELSE LET f == free_token(m)
         IN BACK_UP(IfOk(emit_int(f, f.int_value), "SCAN_EXPR"))

scan_HEX(m, ch) ==
    IF ch = "." THEN St(token_char(m, ch), "SCAN_HEX_FRACTION")
    ELSE IF ch \in {"p", "P"} THEN St(token_char(m, ch), "SCAN_HEX_EXPONENT_SIGN")
    ELSE LET digit_value == hex_digit_to_int(ch)
         IN IF digit_value # -1
            THEN LET t == token_char(m, ch)
                 IN IF digit_exceeds(t, digit_value, 16, INT64_MAX)
                    THEN St(t, "SCAN_HEX_FLOAT")
                    ELSE add_safe_digit(t, digit_value, 16)
            ELSE BACK_UP(IfOk(EMIT_INT(free_token(m)), "SCAN_EXPR"))

scan_BINARY(m, ch) ==
    IF ch \in {"0", "1"}
    THEN add_digit(m, DigitVal(ch), 2, INT64_MAX,
                   <<"Binary literal exceeds maximum value">>)
    ELSE IF ch = "." THEN ERROR(m, <<"Fractional binary literals not allowed">>)
    ELSE IF ch \in Digits THEN ERROR(m, <<"Illegal binary digit ", ch>>)
    ELSE BACK_UP(IfOk(EMIT_INT(m), "SCAN_EXPR"))

scan_OCTAL(m, ch) ==
    IF ch \in {"0","1","2","3","4","5","6","7"}
    THEN add_digit(m, DigitVal(ch), 8, INT64_MAX,
                   <<"Octal literal exceeds maximum value">>)
    ELSE IF ch = "." THEN ERROR(m, <<"Fractional octal literals not allowed">>)
    ELSE IF ch \in {"8", "9"} THEN ERROR(m, <<"Illegal octal digit ", ch>>)
    ELSE BACK_UP(IfOk(EMIT_INT(m), "SCAN_EXPR"))

scan_DOT(m, ch) ==
    IF ch \in Digits THEN St(token_char(m, ch), "SCAN_DECIMAL_FRACTION")
    ELSE LET r == emit_symbol(m)
         IN IF ~r.ok THEN r ELSE BACK_UP(St(r, "SCAN_EXPR"))

scan_DECIMAL_FLOAT(m, ch) ==
    IF ch = "." THEN St(token_char(m, ch), "SCAN_DECIMAL_FRACTION")
    ELSE IF ch \in {"e", "E"} THEN St(token_char(m, ch), "SCAN_DECIMAL_EXPONENT_SIGN")
    ELSE IF ch \in Digits THEN token_char(m, ch)
    ELSE BACK_UP(IfOk(emit_float(m), "SCAN_EXPR"))

scan_DECIMAL_FRACTION(m, ch) ==
    IF ch \in {"e", "E"} THEN St(token_char(m, ch), "SCAN_DECIMAL_EXPONENT_SIGN")
    ELSE IF ch \in Digits THEN token_char(m, ch)
    ELSE BACK_UP(IfOk(emit_float(m), "SCAN_EXPR"))

scan_DECIMAL_EXPONENT_SIGN(m, ch) ==
    IF ch = "-" THEN St(token_char(m, ch), "SCAN_DECIMAL_EXPONENT")
    ELSE St(BACK_UP(m), "SCAN_DECIMAL_EXPONENT")

\* the test for "no digits" reads digit_count, which counts the digits of the
\* last integer or escape scanned, not those of this exponent
scan_DECIMAL_EXPONENT(m, ch) ==
    IF ch \in Digits THEN token_char(m, ch)
    ELSE IF m.digit_count = 0
    THEN ERROR(free_token(m), <<"No digits after decimal exponent delimiter">>)
    ELSE BACK_UP(IfOk(emit_float(m), "SCAN_EXPR"))

scan_HEX_FLOAT(m, ch) ==
    IF ch = "." THEN St(token_char(m, ch), "SCAN_HEX_FRACTION")
    ELSE IF ch \in {"p", "P"} THEN St(token_char(m, ch), "SCAN_HEX_EXPONENT_SIGN")
    ELSE IF hex_digit_to_int(ch) # -1 THEN token_char(m, ch)
    ELSE BACK_UP(IfOk(emit_float(m), "SCAN_EXPR"))

scan_HEX_FRACTION(m, ch) ==
    IF ch \in {"p", "P"} THEN St(token_char(m, ch), "SCAN_HEX_EXPONENT_SIGN")
    ELSE IF hex_digit_to_int(ch) # -1 THEN token_char(m, ch)
    ELSE BACK_UP(IfOk(emit_float(m), "SCAN_EXPR"))

scan_HEX_EXPONENT_SIGN(m, ch) ==
    IF ch = "-" THEN St(token_char(m, ch), "SCAN_HEX_EXPONENT")
    ELSE St(BACK_UP(m), "SCAN_HEX_EXPONENT")

\* the result of emit_float is dropped: the state becomes SCAN_EXPR anyway
scan_HEX_EXPONENT(m, ch) ==
    IF hex_digit_to_int(ch) # -1 THEN token_char(m, ch)
    ELSE IF m.digit_count = 0
    THEN ERROR(free_token(m), <<"No digits after hex exponent delimiter">>)
    ELSE BACK_UP(St(emit_float(m), "SCAN_EXPR"))

\* the switch on lexer->state
scan_byte(m, ch) ==
    CASE m.state = "SCAN_NEWLINE" -> scan_NEWLINE(m, ch)
      [] m.state = "SCAN_ERROR" -> scan_ERROR(m, ch)
      [] m.state = "SCAN_LINENO" -> scan_LINENO(m, ch)
      [] m.state = "SCAN_AFTER_LINENO" -> scan_AFTER_LINENO(m, ch)
      [] m.state = "SCAN_COMMAND_NAME" -> scan_COMMAND_NAME(m, ch)
      [] m.state = "SCAN_ARGS" -> scan_ARGS(m, ch)
      [] m.state = "SCAN_EXTENDED_KEY" -> scan_EXTENDED_KEY(m, ch)
      [] m.state = "SCAN_AFTER_EXTENDED_KEY" -> scan_AFTER_EXTENDED_KEY(m, ch)
      [] m.state = "SCAN_AFTER_EXTENDED_SEPARATOR" -> scan_AFTER_EXTENDED_SEPARATOR(m, ch)
      [] m.state = "SCAN_AFTER_TRADITIONAL_KEY" -> scan_AFTER_TRADITIONAL_KEY(m, ch)
      [] m.state = "SCAN_ARG_VALUE" -> scan_ARG_VALUE(m, ch)
      [] m.state = "SCAN_COMMENT" -> scan_COMMENT(m, ch)
      [] m.state = "SCAN_EMPTY_LINE_COMMENT" -> scan_EMPTY_LINE_COMMENT(m, ch)
      [] m.state = "SCAN_EXPR" -> scan_EXPR(m, ch)
      [] m.state = "SCAN_AFTER_EXPR" -> scan_AFTER_EXPR(m, ch)
      [] m.state = "SCAN_SYMBOL" -> scan_SYMBOL(m, ch)
      [] m.state = "SCAN_IDENTIFIER" -> scan_IDENTIFIER(m, ch)
      [] m.state = "SCAN_STR" -> scan_STR(m, ch)
      [] m.state = "SCAN_STR_ESCAPE" -> scan_STR_ESCAPE(m, ch)
      [] m.state = "SCAN_STR_OCTAL" -> scan_STR_OCTAL(m, ch)
      [] m.state = "SCAN_STR_HEX" -> scan_STR_HEX(m, ch)
      [] m.state = "SCAN_STR_LOW_UNICODE" -> scan_STR_LOW_UNICODE(m, ch)
      [] m.state = "SCAN_STR_HIGH_UNICODE" -> scan_STR_HIGH_UNICODE(m, ch)
      [] m.state = "SCAN_NUMBER_BASE" -> scan_NUMBER_BASE(m, ch)
      [] m.state = "SCAN_DECIMAL" -> scan_DECIMAL(m, ch)
      [] m.state = "SCAN_HEX" -> scan_HEX(m, ch)
      [] m.state = "SCAN_BINARY" -> scan_BINARY(m, ch)
      [] m.state = "SCAN_OCTAL" -> scan_OCTAL(m, ch)
      [] m.state = "SCAN_DOT" -> scan_DOT(m, ch)
      [] m.state = "SCAN_DECIMAL_FLOAT" -> scan_DECIMAL_FLOAT(m, ch)
      [] m.state = "SCAN_DECIMAL_FRACTION" -> scan_DECIMAL_FRACTION(m, ch)
      [] m.state = "SCAN_DECIMAL_EXPONENT_SIGN" -> scan_DECIMAL_EXPONENT_SIGN(m, ch)
      [] m.state = "SCAN_DECIMAL_EXPONENT" -> scan_DECIMAL_EXPONENT(m, ch)
      [] m.state = "SCAN_HEX_FLOAT" -> scan_HEX_FLOAT(m, ch)
      [] m.state = "SCAN_HEX_FRACTION" -> scan_HEX_FRACTION(m, ch)
      [] m.state = "SCAN_HEX_EXPONENT_SIGN" -> scan_HEX_EXPONENT_SIGN(m, ch)
      [] m.state = "SCAN_HEX_EXPONENT" -> scan_HEX_EXPONENT(m, ch)

\* the position update that ends an iteration; it sees ch = 0 after BACK_UP
advance(r, ch) ==
    IF ~r.back /\ ch = NL
    THEN [r EXCEPT !.line = @ + 1, !.column = 1, !.n = @ + 1]
    ELSE [r EXCEPT !.column = @ + 1, !.n = IF r.back THEN @ ELSE @ + 1]

\* one iteration of the for loop on buffer[i]: the switch, then the position
\* update
scan_iteration(m, ch) ==
    advance(scan_byte([m EXCEPT !.ok = TRUE, !.back = FALSE], ch), ch)

RECURSIVE scan_from(_, _, _)
\* the loop's increment: BACK_UP has stepped the pointer back, so the same
\* byte is read again
scan_next(r, buffer, i) == scan_from(r, buffer, IF r.back THEN i ELSE i + 1)

\* the for loop from buffer[i]
scan_from(m, buffer, i) ==
    IF i > Len(buffer) THEN m
    ELSE scan_next(scan_iteration(m, buffer[i]), buffer, i)


\* gcode_lexer_scan with a token buffer that does not outlive the call
gcode_lexer_scan_token_per_call(m, buffer) ==
    [scan_from([m EXCEPT !.token_length = 0], buffer, 1)
        EXCEPT !.ok = TRUE, !.back = FALSE]

gcode_lexer_scan(m, buffer) ==
    [scan_from(m, buffer, 1) EXCEPT !.ok = TRUE, !.back = FALSE]

gcode_lexer_finish(m) ==
    IF m.state # "SCAN_NEWLINE" THEN gcode_lexer_scan(m, <<NL>>) ELSE m

gcode_lexer_reset(lx) ==
    [lx EXCEPT !.state = "SCAN_NEWLINE", !.token_length = 0,
               !.line = 1, !.column = 1]

\* the fields malloc leaves unset and a read can reach before any write
UninitDigitCounts == {0, 1}

\* gcode_lexer_new: digit_count and in_arg_value are whatever malloc left;
\* the other unset fields are written before they are first read
gcode_lexer_new(digits, in_value) ==
    gcode_lexer_reset(
        [state |-> "SCAN_NEWLINE", token_str |-> <<>>, token_length |-> 0,
         token_limit |-> 0, error_str |-> <<>>, error_limit |-> 0,
         expr_nesting |-> 0, int_value |-> Int64(0), digit_count |-> digits,
         line |-> 0, column |-> 0, arg_mode |-> "ARG_TRADITIONAL",
         after_str |-> "SCAN_NEWLINE", in_arg_value |-> in_value])

----------------------------------------------------------------------------
(* The keyword table of gcode_keywords.generated.c *)

MIN_WORD_LENGTH == 1
MAX_WORD_LENGTH == 8
MAX_HASH_VALUE == 32

\* asso_values[(unsigned char) ch]; 33 for every byte not listed
asso_values(ch) ==
    CASE ch = NL -> 4
      [] ch = "!" -> 31
      [] ch = "%" -> 26
      [] ch = "(" -> 28
      [] ch = ")" -> 23
      [] ch = "*" -> 15
      [] ch = "+" -> 18
      [] ch = "," -> 13
      [] ch = "-" -> 8
      [] ch = "." -> 30
      [] ch = "/" -> 25
      [] ch = "<" -> 10
      [] ch = "=" -> 20
      [] ch = ">" -> 5
      [] ch = "A" -> 10
      [] ch = "E" -> 0
      [] ch = "I" -> 0
      [] ch = "N" -> 0
      [] ch = "O" -> 20
      [] ch = "~" -> 0
      [] OTHER -> 33
wordlist ==
  <<
    [name |-> <<>>, id |-> 0],
    [name |-> <<"~">>, id |-> 266],
    [name |-> <<"I", "F">>, id |-> 278],
    [name |-> <<"N", "A", "N">>, id |-> 284],
    [name |-> <<"E", "L", "S", "E">>, id |-> 279],
    [name |-> <<NL>>, id |-> 262],
    [name |-> <<">">>, id |-> 274],
    [name |-> <<">", "=">>, id |-> 276],
    [name |-> <<"I", "N", "F", "I", "N", "I", "T", "Y">>, id |-> 285],
    [name |-> <<"-">>, id |-> 268],
    [name |-> <<>>, id |-> 0],
    [name |-> <<"<">>, id |-> 273],
    [name |-> <<"<", "=">>, id |-> 275],
    [name |-> <<"A", "N", "D">>, id |-> 264],
    [name |-> <<",">>, id |-> 281],
    [name |-> <<>>, id |-> 0],
    [name |-> <<"*">>, id |-> 271],
    [name |-> <<"*", "*">>, id |-> 270],
    [name |-> <<>>, id |-> 0],
    [name |-> <<"+">>, id |-> 267],
    [name |-> <<>>, id |-> 0],
    [name |-> <<"=">>, id |-> 265],
    [name |-> <<"O", "R">>, id |-> 263],
    [name |-> <<>>, id |-> 0],
    [name |-> <<")">>, id |-> 283],
    [name |-> <<>>, id |-> 0],
    [name |-> <<"/">>, id |-> 272],
    [name |-> <<"%">>, id |-> 269],
    [name |-> <<>>, id |-> 0],
    [name |-> <<"(">>, id |-> 282],
    [name |-> <<>>, id |-> 0],
    [name |-> <<".">>, id |-> 280],
    [name |-> <<"!">>, id |-> 277]
  >>

hash(str, len) == len + asso_values(str[1])

\* the id of the entry found for the string, 0 for a null result
gcode_keyword_lookup(str, len) ==
    IF len <= MAX_WORD_LENGTH /\ len >= MIN_WORD_LENGTH
       /\ hash(str, len) <= MAX_HASH_VALUE
       /\ wordlist[hash(str, len) + 1].name = str
    THEN wordlist[hash(str, len) + 1].id
    ELSE 0

----------------------------------------------------------------------------
(* The parser of gcode_parser.generated.c: token numbers, the LALR(1)      *)
(* tables and the push driver yypush_parse.                                *)

TOK_IDENTIFIER == 258
TOK_INTEGER == 259
TOK_FLOAT == 260
TOK_STRING == 261
TOK_EOL == 262
TOK_TRUE == 286
TOK_FALSE == 287
TOK_LBRACKET == 288
TOK_RBRACKET == 289
TOK_LBRACE == 290
TOK_RBRACE == 291
TOK_BRIDGE == 292

YYFINAL == 25
YYLAST == 338
YYNTOKENS == 39
YYUNDEFTOK == 2
YYMAXUTOK == 293
YYPACT_NINF == -51
YYEMPTY == -2
YYEOF == 0
YYTERROR == 1
YYINITDEPTH == 200
YYMAXDEPTH == 10000
YYPUSH_MORE == 4

yytranslate ==
  <<
    0, 2, 2, 2, 2, 2, 2, 2, 2, 2, 2, 2, 2, 2, 2, 2, 2, 2, 2, 2, 2, 2, 2, 2,
    2, 2, 2, 2, 2, 2, 2, 2, 2, 2, 2, 2, 2, 2, 2, 2, 2, 2, 2, 2, 2, 2, 2, 2,
    2, 2, 2, 2, 2, 2, 2, 2, 2, 2, 2, 2, 2, 2, 2, 2, 2, 2, 2, 2, 2, 2, 2, 2,
    2, 2, 2, 2, 2, 2, 2, 2, 2, 2, 2, 2, 2, 2, 2, 2, 2, 2, 2, 2, 2, 2, 2, 2,
    2, 2, 2, 2, 2, 2, 2, 2, 2, 2, 2, 2, 2, 2, 2, 2, 2, 2, 2, 2, 2, 2, 2, 2,
    2, 2, 2, 2, 2, 2, 2, 2, 2, 2, 2, 2, 2, 2, 2, 2, 2, 2, 2, 2, 2, 2, 2, 2,
    2, 2, 2, 2, 2, 2, 2, 2, 2, 2, 2, 2, 2, 2, 2, 2, 2, 2, 2, 2, 2, 2, 2, 2,
    2, 2, 2, 2, 2, 2, 2, 2, 2, 2, 2, 2, 2, 2, 2, 2, 2, 2, 2, 2, 2, 2, 2, 2,
    2, 2, 2, 2, 2, 2, 2, 2, 2, 2, 2, 2, 2, 2, 2, 2, 2, 2, 2, 2, 2, 2, 2, 2,
    2, 2, 2, 2, 2, 2, 2, 2, 2, 2, 2, 2, 2, 2, 2, 2, 2, 2, 2, 2, 2, 2, 2, 2,
    2, 2, 2, 2, 2, 2, 2, 2, 2, 2, 2, 2, 2, 2, 2, 2, 1, 2, 3, 4, 5, 6, 7, 8,
    9, 10, 11, 12, 13, 14, 15, 16, 17, 18, 19, 20, 21, 22, 23, 24, 25, 26,
    27, 28, 29, 30, 31, 32, 33, 34, 35, 36, 37, 38
  >>

yypact ==
  <<
    16, -5, -51, -51, 49, 3, 16, -51, 13, -51, -51, -23, -51, -51, 49, 49,
    49, 49, -51, -51, -51, -51, 74, -51, -51, -51, -51, 12, -51, 49, 31, 31,
    31, 130, 49, 49, 49, 49, 49, 49, 49, 49, 49, 49, 49, 49, 49, 49, 49, 2,
    49, -51, -51, 156, -22, -51, -51, 207, 231, 254, 276, 296, 296, 305, 31,
    305, 305, 34, 34, 34, 34, 182, -51, -51, 103, 49, -51, 49, -51, -51, 34
  >>

yydefact ==
  <<
    0, 0, 42, 5, 0, 0, 0, 4, 0, 8, 6, 41, 14, 15, 0, 0, 0, 0, 19, 18, 16,
    17, 0, 13, 12, 1, 3, 0, 7, 43, 22, 21, 20, 0, 0, 0, 0, 0, 0, 0, 0, 0, 0,
    0, 0, 0, 0, 0, 0, 0, 0, 9, 10, 45, 0, 44, 11, 30, 29, 36, 35, 23, 24,
    27, 28, 25, 26, 31, 32, 34, 33, 0, 41, 37, 0, 0, 40, 0, 38, 46, 39
  >>

yypgoto ==
  <<
    -51, 9, -51, 0, -6, -4, -25, 1, -51, -50
  >>

yydefgoto ==
  <<
    -1, 5, 6, 7, 8, 53, 23, 24, 54, 55
  >>

yytable ==
  <<
    22, 9, 10, 25, 29, 72, 76, 9, 28, 9, 30, 31, 32, 33, 1, 26, -2, 1, 2, 2,
    3, 52, 2, 3, 73, 79, 0, 0, 9, 0, 57, 58, 59, 60, 61, 62, 63, 64, 65, 66,
    67, 68, 69, 70, 71, 0, 74, 4, 4, 41, 27, 4, 11, 12, 13, 2, 49, 48, 0,
    49, 0, 14, 15, 0, 50, 0, 0, 50, 0, 0, 0, 16, 0, 80, 0, 0, 17, 0, 18, 19,
    20, 21, 34, 35, 36, 37, 38, 39, 40, 41, 42, 43, 44, 45, 46, 47, 0, 48,
    0, 49, 0, 0, 0, 0, 0, 0, 0, 50, 0, 0, 51, 34, 35, 36, 37, 38, 39, 40,
    41, 42, 43, 44, 45, 46, 47, 0, 48, 0, 49, 0, 0, 0, 0, 0, 0, 0, 50, 78,
    34, 35, 36, 37, 38, 39, 40, 41, 42, 43, 44, 45, 46, 47, 0, 48, 0, 49, 0,
    0, 56, 0, 0, 0, 0, 50, 34, 35, 36, 37, 38, 39, 40, 41, 42, 43, 44, 45,
    46, 47, 0, 48, 0, 49, 75, 0, 0, 0, 0, 0, 0, 50, 34, 35, 36, 37, 38, 39,
    40, 41, 42, 43, 44, 45, 46, 47, 0, 48, 77, 49, 0, 0, 0, 0, 0, 0, 0, 50,
    35, 36, 37, 38, 39, 40, 41, 42, 43, 44, 45, 46, 47, 0, 48, 0, 49, 0, 0,
    0, 0, 0, 0, 0, 50, 36, 37, 38, 39, 40, 41, 42, 43, 44, 45, 46, 47, 0,
    48, 0, 49, 0, 0, 0, 0, 0, 0, 0, 50, 37, 38, 39, 40, 41, 42, 43, 44, 45,
    46, 47, 0, 48, 0, 49, 0, 0, 0, 0, 0, 0, 0, 50, 38, 39, 40, 41, 42, 43,
    44, 45, 46, 47, 0, 48, 0, 49, 0, 0, 0, 0, 0, 0, 0, 50, 40, 41, 42, 43,
    44, 45, 46, 47, 0, 48, 41, 49, 0, 44, 45, 46, 47, 0, 48, 50, 49, 0, 0,
    0, 0, 0, 0, 0, 50
  >>

yycheck ==
  <<
    4, 0, 7, 0, 27, 3, 28, 6, 8, 8, 14, 15, 16, 17, 1, 6, 0, 1, 6, 6, 7, 27,
    6, 7, 49, 75, -1, -1, 27, -1, 34, 35, 36, 37, 38, 39, 40, 41, 42, 43,
    44, 45, 46, 47, 48, -1, 50, 35, 35, 15, 37, 35, 3, 4, 5, 6, 25, 23, -1,
    25, -1, 12, 13, -1, 33, -1, -1, 33, -1, -1, -1, 22, -1, 77, -1, -1, 27,
    -1, 29, 30, 31, 32, 8, 9, 10, 11, 12, 13, 14, 15, 16, 17, 18, 19, 20,
    21, -1, 23, -1, 25, -1, -1, -1, -1, -1, -1, -1, 33, -1, -1, 36, 8, 9,
    10, 11, 12, 13, 14, 15, 16, 17, 18, 19, 20, 21, -1, 23, -1, 25, -1, -1,
    -1, -1, -1, -1, -1, 33, 34, 8, 9, 10, 11, 12, 13, 14, 15, 16, 17, 18,
    19, 20, 21, -1, 23, -1, 25, -1, -1, 28, -1, -1, -1, -1, 33, 8, 9, 10,
    11, 12, 13, 14, 15, 16, 17, 18, 19, 20, 21, -1, 23, -1, 25, 26, -1, -1,
    -1, -1, -1, -1, 33, 8, 9, 10, 11, 12, 13, 14, 15, 16, 17, 18, 19, 20,
    21, -1, 23, 24, 25, -1, -1, -1, -1, -1, -1, -1, 33, 9, 10, 11, 12, 13,
    14, 15, 16, 17, 18, 19, 20, 21, -1, 23, -1, 25, -1, -1, -1, -1, -1, -1,
    -1, 33, 10, 11, 12, 13, 14, 15, 16, 17, 18, 19, 20, 21, -1, 23, -1, 25,
    -1, -1, -1, -1, -1, -1, -1, 33, 11, 12, 13, 14, 15, 16, 17, 18, 19, 20,
    21, -1, 23, -1, 25, -1, -1, -1, -1, -1, -1, -1, 33, 12, 13, 14, 15, 16,
    17, 18, 19, 20, 21, -1, 23, -1, 25, -1, -1, -1, -1, -1, -1, -1, 33, 14,
    15, 16, 17, 18, 19, 20, 21, -1, 23, 15, 25, -1, 18, 19, 20, 21, -1, 23,
    33, 25, -1, -1, -1, -1, -1, -1, -1, 33
  >>

yystos ==
  <<
    0, 1, 6, 7, 35, 40, 41, 42, 43, 46, 7, 3, 4, 5, 12, 13, 22, 27, 29, 30,
    31, 32, 44, 45, 46, 0, 40, 37, 42, 27, 44, 44, 44, 44, 8, 9, 10, 11, 12,
    13, 14, 15, 16, 17, 18, 19, 20, 21, 23, 25, 33, 36, 43, 44, 47, 48, 28,
    44, 44, 44, 44, 44, 44, 44, 44, 44, 44, 44, 44, 44, 44, 44, 3, 45, 44,
    26, 28, 24, 34, 48, 44
  >>

yyr1 ==
  <<
    0, 39, 40, 40, 41, 42, 42, 42, 43, 43, 43, 44, 44, 44, 44, 44, 44, 44,
    44, 44, 44, 44, 44, 44, 44, 44, 44, 44, 44, 44, 44, 44, 44, 44, 44, 44,
    44, 44, 44, 44, 44, 45, 46, 47, 47, 48, 48
  >>

yyr2 ==
  <<
    0, 2, 0, 2, 1, 1, 2, 2, 1, 3, 3, 3, 1, 1, 1, 1, 1, 1, 1, 1, 2, 2, 2, 3,
    3, 3, 3, 3, 3, 3, 3, 3, 3, 3, 3, 3, 3, 3, 4, 5, 4, 1, 1, 0, 1, 1, 3
  >>

\* element i of a C array
T(table, i) == table[i + 1]

YYTRANSLATE(yyx) == IF yyx >= 0 /\ yyx <= YYMAXUTOK THEN T(yytranslate, yyx) ELSE YYUNDEFTOK

yypact_value_is_default(yyn) == yyn = YYPACT_NINF

yytable_value_is_error(yyn) == FALSE

----------------------------------------------------------------------------
(* Semantic values.  A node pointer is the list of nodes it heads (a node  *)
(* and the siblings linked after it), NULL the empty list.  The node       *)
(* library only builds and links nodes.                                    *)

NULL == <<>>

Node(type, value, children) ==
    <<[type |-> type, value |-> value, children |-> children]>>

gcode_int_new(value) == Node("int", value, NULL)
gcode_float_new(value) == Node("float", value, NULL)
gcode_bool_new(value) == Node("bool", <<value>>, NULL)
gcode_str_new(value) == Node("str", value, NULL)
gcode_parameter_new(name) == Node("parameter", name, NULL)
gcode_function_new(name, args) == Node("function", name, args)
gcode_operator_new(type, children) == Node("operator", <<type>>, children)
gcode_add_next(a, b) == a \o b
gcode_statement_new(children) == children

newop2(type, a, b) == gcode_operator_new(type, gcode_add_next(a, b))

newop3(type, a, b, c) == gcode_operator_new(type, gcode_add_next(gcode_add_next(a, b), c))

\* a YYSTYPE holding a number, and one holding a const char* into the
\* lexer's token buffer; a keyword is pushed with no value
NumberValue(text) == Node("number", text, NULL)
PointerValue == Node("char*", <<>>, NULL)

----------------------------------------------------------------------------
(* struct GCodeParser with its yypstate, the calls made to its two sinks   *)
(* and to gcode_node_delete.  attached is false for a lexer that is driven *)
(* with other callbacks than the parser's.                                 *)

ParserFields ==
    {"attached", "yynew", "yyss", "yyvs", "yyerrstatus", "yynerrs",
     "yystacksize", "yyresult", "statements", "errors", "deleted"}

yypstate_new(attached) ==
    [attached |-> attached, yynew |-> TRUE, yyss |-> <<>>, yyvs |-> <<>>,
     yyerrstatus |-> 0, yynerrs |-> 0, yystacksize |-> 0, yyresult |-> 0,
     statements |-> <<>>, errors |-> <<>>, deleted |-> <<>>]

gcode_parser_new == yypstate_new(TRUE)

\* the locals of one call of yypush_parse; str is what the lexer's token
\* buffer holds during the call
Frame(p, pushed_char, pushed_val, str) ==
    p @@ [yychar |-> YYEMPTY, yylval |-> NULL, pushed_char |-> pushed_char,
          pushed_val |-> pushed_val, str |-> str]

ParserOf(c) == [f \in ParserFields |-> c[f]]

yystate(c) == c.yyss[Len(c.yyss)]

\* yyvsp[k], k <= 0
yyvsp(c, k) == c.yyvs[Len(c.yyvs) + k]

\* the text a stacked const char* points at
Text(c, value) == c.str

YYPOPSTACK(c, n) ==
    [c EXCEPT !.yyss = SubSeq(@, 1, Len(@) - n),
              !.yyvs = SubSeq(@, 1, Len(@) - n)]

\* parser->error(parser->context, "G-Code parse error: ...")
yyerror(c, msg) == [c EXCEPT !.errors = Append(@, msg)]

add_statement(c, children) ==
    [c EXCEPT !.statements = Append(@, gcode_statement_new(children))]

\* gcode_node_delete for the symbols that carry a node
yydestruct(c, yytype, value) ==
    IF yytype >= 42 /\ yytype <= 48
    THEN [c EXCEPT !.deleted = Append(@, value)]
    ELSE c

\* the semantic action of rule yyn: the frame after it and the value $$
Reduced(c, yyval) == [c |-> c, yyval |-> yyval]

yyaction(c, yyn) ==
    CASE yyn = 4 -> Reduced(add_statement(c, yyvsp(c, 0)), yyvsp(c, 0))
      [] yyn \in {5, 6, 43} -> Reduced(c, NULL)
      [] yyn = 7 -> Reduced(c, gcode_add_next(yyvsp(c, -1), yyvsp(c, 0)))
      [] yyn \in {9, 11} -> Reduced(c, yyvsp(c, -1))
      [] yyn = 10 -> Reduced(c, newop2("CONCAT", yyvsp(c, -2), yyvsp(c, 0)))
      [] yyn = 14 -> Reduced(c, gcode_int_new(yyvsp(c, 0)[1].value))
      [] yyn = 15 -> Reduced(c, gcode_float_new(yyvsp(c, 0)[1].value))
      [] yyn = 16 -> Reduced(c, gcode_bool_new("true"))
      [] yyn = 17 -> Reduced(c, gcode_bool_new("false"))
      [] yyn = 18 -> Reduced(c, gcode_float_new(<<"INFINITY">>))
      [] yyn = 19 -> Reduced(c, gcode_float_new(<<"NAN">>))
      [] yyn = 20 -> Reduced(c, gcode_operator_new("NOT", yyvsp(c, 0)))
      [] yyn = 21 -> Reduced(c, gcode_operator_new("NEGATE", yyvsp(c, 0)))
      [] yyn = 22 -> Reduced(c, yyvsp(c, 0))
      [] yyn = 23 -> Reduced(c, newop2("ADD", yyvsp(c, -2), yyvsp(c, 0)))
      [] yyn = 24 -> Reduced(c, newop2("SUBTRACT", yyvsp(c, -2), yyvsp(c, 0)))
      [] yyn = 25 -> Reduced(c, newop2("MULTIPLY", yyvsp(c, -2), yyvsp(c, 0)))
      [] yyn = 26 -> Reduced(c, newop2("DIVIDE", yyvsp(c, -2), yyvsp(c, 0)))
      [] yyn = 27 -> Reduced(c, newop2("MODULUS", yyvsp(c, -2), yyvsp(c, 0)))
      [] yyn = 28 -> Reduced(c, newop2("POWER", yyvsp(c, -2), yyvsp(c, 0)))
      [] yyn = 29 -> Reduced(c, newop2("AND", yyvsp(c, -2), yyvsp(c, 0)))
      [] yyn = 30 -> Reduced(c, newop2("OR", yyvsp(c, -2), yyvsp(c, 0)))
      [] yyn = 31 -> Reduced(c, newop2("LT", yyvsp(c, -2), yyvsp(c, 0)))
      [] yyn = 32 -> Reduced(c, newop2("GT", yyvsp(c, -2), yyvsp(c, 0)))
      [] yyn = 33 -> Reduced(c, newop2("GTE", yyvsp(c, -2), yyvsp(c, 0)))
      [] yyn = 34 -> Reduced(c, newop2("LTE", yyvsp(c, -2), yyvsp(c, 0)))
      [] yyn = 35 -> Reduced(c, newop2("CONCAT", yyvsp(c, -2), yyvsp(c, 0)))
      [] yyn = 36 -> Reduced(c, newop2("EQUALS", yyvsp(c, -2), yyvsp(c, 0)))
      [] yyn = 37 -> Reduced(c, newop2("LOOKUP", yyvsp(c, -2), yyvsp(c, 0)))
      [] yyn = 38 -> Reduced(c, newop2("LOOKUP", yyvsp(c, -3), yyvsp(c, -1)))
      [] yyn = 39 -> Reduced(c, newop3("IFELSE", yyvsp(c, -4), yyvsp(c, -2), yyvsp(c, 0)))
      [] yyn = 40 -> Reduced(c, gcode_function_new(Text(c, yyvsp(c, -3)), yyvsp(c, -1)))
      [] yyn = 41 -> Reduced(c, gcode_parameter_new(Text(c, yyvsp(c, 0))))
      [] yyn = 42 -> Reduced(c, gcode_str_new(Text(c, yyvsp(c, 0))))
      [] yyn = 46 -> Reduced(c, gcode_add_next(yyvsp(c, -2), yyvsp(c, 0)))
      [] OTHER -> Reduced(c, IF T(yyr2, yyn) > 0 THEN yyvsp(c, 1 - T(yyr2, yyn)) ELSE NULL)

\* the state a reduction to the nonterminal lhs leads to from state top
yygoto(lhs, top, yyn) ==
    IF 0 <= yyn /\ yyn <= YYLAST /\ T(yycheck, yyn) = top
    THEN T(yytable, yyn)
    ELSE T(yydefgoto, lhs - YYNTOKENS)

\* the labels of yypush_parse
RECURSIVE yysetstate(_), yybackup(_), yyreduce(_, _), yyerrlab(_),
          yynewstate(_, _, _), yyreturn(_, _), yydefault(_), yyact(_, _),
          yylookup(_, _, _), yyread_pushed_token(_), yyerrlab1(_)

yypushreturn(c, yyresult) == [c EXCEPT !.yyresult = yyresult]

\* the stack entries above the bottom whose yydestruct deletes a node, the
\* top first
Destroyed(c) ==
    SelectSeq([k \in 1..(Len(c.yyss) - 1) |-> Len(c.yyss) + 1 - k],
              LAMBDA i : yydestruct([deleted |-> <<>>], T(yystos, c.yyss[i]),
                                    c.yyvs[i]).deleted # <<>>)

\* every stacked symbol above the bottom is destroyed and popped
yycleanup(c) ==
    IF Len(c.yyss) <= 1 THEN c
    ELSE [YYPOPSTACK(c, Len(c.yyss) - 1) EXCEPT
              !.deleted = @ \o [k \in 1..Len(Destroyed(c)) |->
                                   c.yyvs[Destroyed(c)[k]]]]

yyreturn(c, yyresult) ==
    yypushreturn([yycleanup(c) EXCEPT !.yynew = TRUE], yyresult)

yyabortlab(c) == yyreturn(c, 1)

yyacceptlab(c) == yyreturn(c, 0)

yyexhaustedlab(c) == yyreturn(yyerror(c, <<"memory exhausted">>), 2)

yynewstate(c, state, value) ==
    yysetstate([c EXCEPT !.yyss = Append(@, state), !.yyvs = Append(@, value)])

yysetstate_done(c) ==
    IF yystate(c) = YYFINAL THEN yyacceptlab(c) ELSE yybackup(c)

yysetstate_extended(c) ==
    IF Len(c.yyss) >= c.yystacksize THEN yyabortlab(c) ELSE yysetstate_done(c)

\* the stacks are doubled when full, up to YYMAXDEPTH
yysetstate(c) ==
    IF Len(c.yyss) < c.yystacksize THEN yysetstate_done(c)
    ELSE IF YYMAXDEPTH <= c.yystacksize THEN yyexhaustedlab(c)
    ELSE yysetstate_extended(
             [c EXCEPT !.yystacksize =
                  IF YYMAXDEPTH < 2 * @ THEN YYMAXDEPTH ELSE 2 * @])

yydefault(c) ==
    IF T(yydefact, yystate(c)) = 0 THEN yyerrlab(c)
    ELSE yyreduce(c, T(yydefact, yystate(c)))

\* the entry yyn of yytable: a shift to state yyn, or a reduction by -yyn
yyact(c, yyn) ==
    IF yyn <= 0 /\ yytable_value_is_error(yyn) THEN yyerrlab(c)
    ELSE IF yyn <= 0 THEN yyreduce(c, 0 - yyn)
    ELSE yynewstate([c EXCEPT !.yyerrstatus = IF @ > 0 THEN @ - 1 ELSE @,
                              !.yychar = YYEMPTY],
                    yyn, c.yylval)

yylookup(c, yytoken, yyn) ==
    IF yyn + yytoken < 0 \/ YYLAST < yyn + yytoken
       \/ T(yycheck, yyn + yytoken) # yytoken
    THEN yydefault(c)
    ELSE yyact(c, T(yytable, yyn + yytoken))

yytoken(yychar) == IF yychar <= YYEOF THEN YYEOF ELSE YYTRANSLATE(yychar)

yyread_pushed_token(c) ==
    yylookup([c EXCEPT !.yychar = IF c.pushed_char <= YYEOF THEN YYEOF
                                    ELSE c.pushed_char,
                       !.yylval = c.pushed_val],
             yytoken(c.pushed_char), T(yypact, yystate(c)))

\* a state with a default action acts without a lookahead; otherwise the
\* call returns for the next token unless it still holds this one
yybackup(c) ==
    IF yypact_value_is_default(T(yypact, yystate(c))) THEN yydefault(c)
    ELSE IF c.yychar = YYEMPTY /\ ~c.yynew THEN yypushreturn(c, YYPUSH_MORE)
    ELSE IF c.yychar = YYEMPTY
    THEN yyread_pushed_token([c EXCEPT !.yynew = FALSE])
    ELSE yylookup(c, yytoken(c.yychar), T(yypact, yystate(c)))

yypushed(c, yyval, lhs) ==
    yynewstate(c, yygoto(lhs, yystate(c),
                         T(yypgoto, lhs - YYNTOKENS) + yystate(c)),
               yyval)

yyreduced(r, yyn) ==
    yypushed(YYPOPSTACK(r.c, T(yyr2, yyn)), r.yyval, T(yyr1, yyn))

yyreduce(c, yyn) == yyreduced(yyaction(c, yyn), yyn)

\* state yyn shifts the error token
yyerrshifts(yyn) ==
    /\ ~yypact_value_is_default(yyn)
    /\ 0 <= yyn + YYTERROR /\ yyn + YYTERROR <= YYLAST
    /\ T(yycheck, yyn + YYTERROR) = YYTERROR
    /\ 0 < T(yytable, yyn + YYTERROR)

\* states are popped until one shifts the error token
RECURSIVE yyerrpop(_)
yyerrpop(c) ==
    IF yyerrshifts(T(yypact, yystate(c)))
    THEN yynewstate(c, T(yytable, T(yypact, yystate(c)) + YYTERROR), c.yylval)
    ELSE IF Len(c.yyss) = 1 THEN yyabortlab(c)
    ELSE yyerrpop(YYPOPSTACK(
             yydestruct(c, T(yystos, yystate(c)), yyvsp(c, 0)), 1))

yyerrlab1(c) == yyerrpop([c EXCEPT !.yyerrstatus = 3])

\* a lookahead that failed right after an error is discarded
yyerrdiscard(c) ==
    IF c.yyerrstatus = 3 /\ c.yychar = YYEOF THEN yyabortlab(c)
    ELSE IF c.yyerrstatus = 3 /\ c.yychar > YYEOF
    THEN yyerrlab1([c EXCEPT !.yychar = YYEMPTY])
    ELSE yyerrlab1(c)

\* the error is reported unless the parser is recovering from one; the
\* tail of the message, which names tokens, is left out
\* were every syntax error reported, recovering or not
yyerrlab_reports_always(c) ==
    yyerrdiscard(yyerror([c EXCEPT !.yynerrs = @ + 1], <<"syntax error">>))

yyerrlab(c) ==
    yyerrdiscard(IF c.yyerrstatus = 0
                 THEN yyerror([c EXCEPT !.yynerrs = @ + 1], <<"syntax error">>)
                 ELSE c)

yypush_parse(p, pushed_char, pushed_val, str) ==
    ParserOf(IF ~p.yynew
             THEN yyread_pushed_token(Frame(p, pushed_char, pushed_val, str))
             ELSE yysetstate([Frame(p, pushed_char, pushed_val, str) EXCEPT
                                 !.yyss = <<0>>, !.yyvs = <<NULL>>,
                                 !.yystacksize = YYINITDEPTH,
                                 !.yyerrstatus = 0, !.yynerrs = 0]))

----------------------------------------------------------------------------
(* The callbacks the parser gives its lexer.  The lexer hands a keyword    *)
(* over as its text, and reports bridges and ends of statements.           *)

lex_keyword(p, id, str) == yypush_parse(p, id, NULL, str)

lex_identifier(p, str) == yypush_parse(p, TOK_IDENTIFIER, PointerValue, str)

lex_string_literal(p, str) == yypush_parse(p, TOK_STRING, PointerValue, str)

lex_int_literal(p, value, str) ==
    yypush_parse(p, TOK_INTEGER, NumberValue(value), str)

lex_float_literal(p, value, str) ==
    yypush_parse(p, TOK_FLOAT, NumberValue(value), str)

lex_bridge(p, str) == yypush_parse(p, TOK_BRIDGE, NULL, str)

lex_end_statement(p, str) == yypush_parse(p, TOK_EOL, NULL, str)

\* the token id of a keyword text: the table's, or that of a bracket, a
\* brace or a truth value; 257 is no token of the grammar
KeywordId(text) ==
    IF gcode_keyword_lookup(text, Len(text)) # 0
    THEN gcode_keyword_lookup(text, Len(text))
    ELSE CASE text = <<"{">> -> TOK_LBRACE
           [] text = <<"}">> -> TOK_RBRACE
           [] text = <<"[">> -> TOK_LBRACKET
           [] text = <<"]">> -> TOK_RBRACKET
           [] text = <<"T", "R", "U", "E">> -> TOK_TRUE
           [] text = <<"F", "A", "L", "S", "E">> -> TOK_FALSE
           [] OTHER -> 257

\* one emission of the lexer, e, is delivered to the parser
lex_callback(p, e) ==
    CASE e.k = "keyword" -> lex_keyword(p, KeywordId(e.v), e.str)
      [] e.k = "identifier" -> lex_identifier(p, e.str)
      [] e.k = "str_literal" -> lex_string_literal(p, e.str)
      [] e.k = "int_literal" -> lex_int_literal(p, e.v, e.str)
      [] e.k = "float_literal" -> lex_float_literal(p, e.v, e.str)
      [] e.k = "bridge" -> lex_bridge(p, e.str)
      [] e.k = "end_statement" -> lex_end_statement(p, e.str)

\* the emissions o[i..] are delivered in order
RECURSIVE Deliver(_, _, _)
Deliver(p, o, i) ==
    IF ~p.attached \/ i > Len(o) THEN p
    ELSE Deliver(lex_callback(p, o[i]), o, i + 1)

----------------------------------------------------------------------------
(* The lexer and its caller as a state machine *)

Machine(lx, o, r, n, f, j) ==
    lx @@ [out |-> o, raised |-> r, n |-> n, fail |-> f, junk |-> j,
           ok |-> TRUE, back |-> FALSE]

LexerOf(m) == [f \in LexerFields |-> m[f]]

Current == Machine(lexer, out, raised, Len(input), fail, junk)

\* the caller holds a lexer as created, lx, and the machine m that scanning
\* the prefix p made of it; ps is the parser as created, others the other
\* instances
Begin(lx, m, p, bytes, ps, others) ==
    /\ start = lx
    /\ lexer = LexerOf(m)
    /\ out = m.out
    /\ raised = m.raised
    /\ input = p
    /\ fail = m.fail
    /\ junk = m.junk
    /\ left = bytes
    /\ last = IF p = <<>> THEN "new" ELSE "scan"
    /\ resumed = lx.state
    /\ parser = Deliver(ps, m.out, 1)
    /\ peer = others

\* the lexer is created with callbacks of the caller's and the caller has
\* already scanned a prefix
InitWith(digit_counts, prefixes, fails, heaps, bytes) ==
    \E d \in digit_counts, v \in BOOLEAN, p \in prefixes,
       f \in fails, j \in heaps :
        Begin(gcode_lexer_new(d, v),
              gcode_lexer_scan(
                  Machine(gcode_lexer_new(d, v), <<>>, <<>>, 0, f, j), p),
              p, bytes, yypstate_new(FALSE), <<>>)

Become(m, bytes) ==
    /\ lexer' = LexerOf(m)
    /\ out' = m.out
    /\ raised' = m.raised
    /\ input' = input \o bytes
    /\ resumed' = lexer.state
    /\ parser' = Deliver(parser, m.out, Len(out) + 1)
    /\ UNCHANGED <<start, fail, junk, peer>>

\* gcode_lexer_scan(lexer, chunk, Len(chunk))
ScanChunk(chunk) ==
    /\ Len(chunk) <= left
    /\ left' = left - Len(chunk)
    /\ last' = "scan"
    /\ Become(gcode_lexer_scan(Current, chunk), chunk)

\* gcode_lexer_finish(lexer)
Finish ==
    /\ left > 0
    /\ left' = left - 1
    /\ last' = "finish"
    /\ Become(gcode_lexer_finish(Current),
              IF lexer.state # "SCAN_NEWLINE" THEN <<NL>> ELSE <<>>)

\* gcode_lexer_reset(lexer); the histories restart
Reset ==
    /\ left > 0
    /\ input # <<>>
    /\ last' = "reset"
    /\ left' = left - 1
    /\ lexer' = gcode_lexer_reset(lexer)
    /\ start' = lexer'
    /\ out' = <<>>
    /\ raised' = <<>>
    /\ input' = <<>>
    /\ resumed' = lexer.state
    /\ UNCHANGED <<fail, junk, parser, peer>>

\* the chunks of 1 or 2 bytes over an alphabet
Chunks(alphabet) == UNION {[1..n -> alphabet] : n \in {1, 2}}

----------------------------------------------------------------------------
(* Spec: a caller that has scanned one of some statement openings feeds    *)
(* arbitrary chunks, finishes and resets.                                  *)

MaxBytes == 3

Alphabet == {" ", NL, DQ, BS, "x", "{", "="}

Prefixes ==
    { <<>>,
      <<"A", " ", DQ>>,
      <<"A", " ", DQ, BS, "x">>,
      <<"A", " ", "{">>,
      <<"A", " ", "{", "0">>,
      <<"A", " ", "{", "a">>,
      <<"G", "1", " ", "X">>,
      <<"M", "1", "1", "7", " ">>,
      <<"M", "1", "1", "7", " ", "a", NL, "M", "1", "1">>,
      <<"A", " ", "B", "=">> }

Init == InitWith(UninitDigitCounts, Prefixes, {0}, {NUL, "?"}, MaxBytes)

Scan == \E chunk \in Chunks(Alphabet) : ScanChunk(chunk)

Next == Scan \/ Finish \/ Reset

Spec == Init /\ [][Next]_vars

----------------------------------------------------------------------------
(* What the histories say *)

Last(s) == s[Len(s)]

\* the emissions without their positions
Emitted == [i \in DOMAIN out |-> <<out[i].k, out[i].v>>]

\* no newline among input[i..j]
NoNewline(i, j) == \A k \in i..j : input[k] # NL

\* the whole input scanned by one call on the lexer the caller started with
Whole == gcode_lexer_scan(Machine(start, <<>>, <<>>, 0, fail, junk), input)

\* C1: however the input was split into chunks, the emissions (kind, payload
\* and position), the errors raised and every field of the lexer are those
\* of one gcode_lexer_scan call on the whole input.
C1_ChunkInvariance ==
    /\ lexer = LexerOf(Whole)
    /\ out = Whole.out
    /\ raised = Whole.raised

\* a call ended between the backslash of a string escape and the escaped
\* byte, and the next call, given the rest, put the escaped byte in the token
C1_SplitInsideEscape ==
    /\ last = "scan"
    /\ resumed = "SCAN_STR_ESCAPE"
    /\ lexer.state = "SCAN_STR"
    /\ lexer.token_length > 0
    /\ left < MaxBytes - 1

\* C2: once the newline ending a line that raised a lexical error has been
\* scanned, the lexer is in state Newline.
C2_ErrorsPerStatement ==
    (/\ fail = 0
     /\ raised # <<>>
     /\ input # <<>>
     /\ Last(input) = NL
     /\ Last(raised).at <= Len(input)
     /\ NoNewline(Last(raised).at, Len(input) - 1))
    => lexer.state = "SCAN_NEWLINE"

\* C3: whenever the lexer is in state Error or Newline the token buffer is
\* empty.
C3_TokenBufferEmpty ==
    (fail = 0 /\ last # "reset"
     /\ lexer.state \in {"SCAN_ERROR", "SCAN_NEWLINE"})
    => lexer.token_length = 0

\* the index of the first byte of the line that input[p] is on
RECURSIVE LineStart(_)
LineStart(p) == IF p = 1 \/ input[p - 1] = NL THEN p ELSE LineStart(p - 1)

\* the end-of-statement emissions made while input[p] was processed
EndsAt(p) == {i \in DOMAIN out : out[i].k = "end_statement" /\ out[i].at = p}

\* the line ending at the newline input[p] starts with a command name and
\* no lexical error was raised while its bytes were processed
CleanStatement(p) ==
    /\ input[p] = NL
    /\ input[LineStart(p)] \in Lower \cup Upper
    /\ \A e \in DOMAIN raised : raised[e].at < LineStart(p)

\* C5: end-of-statement, through which alone the statement sink is reached,
\* is emitted only while a newline is processed, and exactly once for the
\* newline that ends a line with a command name.
C5_SinkOncePerStatement ==
    fail = 0 =>
        /\ \A i \in DOMAIN out :
               out[i].k = "end_statement" => input[out[i].at] = NL
        /\ \A p \in DOMAIN input :
               CleanStatement(p) => Cardinality(EndsAt(p)) = 1

\* C6: after gcode_lexer_finish the lexer is at a statement boundary, so a
\* second finish does nothing.
C6_FinishAtBoundary ==
    (fail = 0 /\ last = "finish") =>
        /\ lexer.state = "SCAN_NEWLINE"
        /\ gcode_lexer_finish(Current) = Current

\* the argument mode the spec gives a command name
ModeOf(name) ==
    IF name = <<"M", "1", "1", "7">> \/ name = <<"E", "C", "H", "O">>
    THEN "ARG_RAW"
    ELSE IF Len(name) > 1 /\ name[1] \in Upper
            /\ \A i \in 2..Len(name) : name[i] \in Digits
    THEN "ARG_TRADITIONAL"
    ELSE "ARG_EXTENDED"

\* C7: when a command name has just been emitted, the argument mode is the
\* one its text selects, whatever the statements before it were.
C7_ModeFromName ==
    (/\ fail = 0 /\ junk = NUL
     /\ out # <<>>
     /\ Last(out).k = "identifier"
     /\ Last(out).at = Len(input)
     /\ lexer.state = "SCAN_ARGS")
    => lexer.arg_mode = ModeOf(Last(out).v)

\* the text of the line  M117 <text>\n  when the input is that line
RawText == SubSeq(input, 6, Len(input) - 1)

\* C9: in Raw mode a text with no `{`, `"` or newline, starting and ending
\* with a byte that is not whitespace, is emitted as one string literal.
C9_RawText ==
    (/\ fail = 0 /\ junk = NUL /\ start.token_limit = 0
     /\ Len(input) > 6
     /\ SubSeq(input, 1, 5) = <<"M", "1", "1", "7", " ">>
     /\ Last(input) = NL
     /\ \A i \in DOMAIN RawText : RawText[i] \notin {ENTER_EXPR, DQ, NL}
     /\ RawText[1] \notin Space
     /\ Last(RawText) \notin Space)
    => Emitted = << <<"identifier", <<"M", "1", "1", "7">> >>,
                    <<"str_literal", RawText>>,
                    <<"end_statement", <<>> >> >>

----------------------------------------------------------------------------
(* SpecFail: the same caller with callbacks of which one returns false.    *)

MaxFailBytes == 3

FailAlphabet == {"a", "1", " ", NL, "{", "}"}

FailPrefixes ==
    { <<>>,
      <<"A", " ">>,
      <<"A", " ", "{", "a">>,
      <<"G", "1", " ", "X", "1">> }

InitFail ==
    InitWith(UninitDigitCounts, FailPrefixes, {1, 2, 3}, {NUL}, MaxFailBytes)

ScanFail == \E chunk \in Chunks(FailAlphabet) : ScanChunk(chunk)

NextFail == ScanFail \/ Finish \/ Reset

SpecFail == InitFail /\ [][NextFail]_vars

\* C4: from the callback that returned false until a newline byte has been
\* scanned, the lexer is in state Error and invokes no callback; a false
\* from end-of-statement leaves the lexer in state Error as well.
C4_FalseStopsEmission ==
    (/\ fail > 0
     /\ Len(out) >= fail
     /\ \/ NoNewline(out[fail].at, Len(input))
        \/ out[fail].k = "end_statement" /\ out[fail].at = Len(input))
    => /\ lexer.state = "SCAN_ERROR"
       /\ Len(out) = fail

----------------------------------------------------------------------------
(* Argument lines as the spec reads them: words separated by blanks.       *)

RECURSIVE WordEnd(_, _)
\* the first index at or after i of a blank, or Len(t) + 1
WordEnd(t, i) == IF i <= Len(t) /\ t[i] # " " THEN WordEnd(t, i + 1) ELSE i

RECURSIVE WordsOf(_)
WordsOf(t) ==
    IF t = <<>> THEN <<>>
    ELSE IF Head(t) = " " THEN WordsOf(Tail(t))
    ELSE <<SubSeq(t, 1, WordEnd(t, 1) - 1)>>
         \o WordsOf(SubSeq(t, WordEnd(t, 1), Len(t)))

RECURSIVE Flatten(_)
Flatten(ss) == IF ss = <<>> THEN <<>> ELSE Head(ss) \o Flatten(Tail(ss))

Letters == Lower \cup Upper

\* the bytes of an unquoted run
RunBytes == Letters \cup Digits \cup {".", "-", "_"}

IsRun(t) == t # <<>> /\ \A i \in DOMAIN t : t[i] \in RunBytes

\* the input is the one line  <name><blank><args>\n , or  <name>\n
IsLineOf(name) ==
    /\ Len(input) > Len(name)
    /\ SubSeq(input, 1, Len(name)) = name
    /\ Last(input) = NL
    /\ NoNewline(1, Len(input) - 1)
    /\ input[Len(name) + 1] \in {" ", NL}

ArgsAfter(name) == WordsOf(SubSeq(input, Len(name) + 1, Len(input) - 1))

Ident(name) == <<"identifier", name>>
Str(text) == <<"str_literal", text>>
Eos == <<"end_statement", <<>> >>

----------------------------------------------------------------------------
(* SpecTraditional: lines of the command G1.                               *)

MaxTraditionalBytes == 4

TraditionalAlphabet == {"y", "0", "-", ".", " ", NL}

G1 == <<"G", "1">>

TraditionalPrefixes ==
    { G1,
      G1 \o <<" ", "X", "1", "0", " ">>,
      G1 \o <<" ", "X", "1", "0", " ", "Y", "2">> }

InitTraditional ==
    InitWith(UninitDigitCounts, TraditionalPrefixes, {0}, {NUL, "?"}, MaxTraditionalBytes)

ScanTraditional == \E chunk \in Chunks(TraditionalAlphabet) : ScanChunk(chunk)

NextTraditional == ScanTraditional \/ Finish \/ Reset

SpecTraditional == InitTraditional /\ [][NextTraditional]_vars

\* an argument of the form <letter><unquoted run>
IsTraditionalArg(w) == Len(w) > 1 /\ w[1] \in Letters /\ IsRun(Tail(w))

TraditionalTokens(w) == <<Str(<<ToUpper(w[1])>>), Str(Tail(w))>>

\* C8: a G1 line whose arguments all have the form <letter><unquoted run> is
\* scanned in Traditional mode (entered at the blank after the name) and emits the name, then for every argument
\* str(upper-cased letter) and str(run) with no bridge, then end-of-statement;
\* `G1 X10 Y20\n` emits ident(G1), str(X), str(10), str(Y), str(20), eos.
C8_TraditionalArgs ==
    /\ (/\ IsLineOf(G1)
        /\ \A i \in DOMAIN ArgsAfter(G1) : IsTraditionalArg(ArgsAfter(G1)[i]))
       => /\ input[Len(G1) + 1] = " " => lexer.arg_mode = "ARG_TRADITIONAL"
          /\ Emitted = <<Ident(G1)>>
                 \o Flatten([i \in DOMAIN ArgsAfter(G1) |->
                                TraditionalTokens(ArgsAfter(G1)[i])])
                 \o <<Eos>>
    /\ input = G1 \o <<" ", "X", "1", "0", " ", "Y", "2", "0", NL>>
       => Emitted = <<Ident(G1), Str(<<"X">>), Str(<<"1", "0">>),
                      Str(<<"Y">>), Str(<<"2", "0">>), Eos>>

\* `G1 X10 Y20\n` has been scanned, the second argument across calls
C8_ScenarioScanned ==
    /\ input = G1 \o <<" ", "X", "1", "0", " ", "Y", "2", "0", NL>>
    /\ Len(out) = 6
    /\ lexer.state = "SCAN_NEWLINE"

----------------------------------------------------------------------------
(* SpecExtended: lines of the command SET_FAN_SPEED.                       *)

MaxExtendedBytes == 4

ExtendedAlphabet == {"s", "=", "0", ".", "5", " ", NL}

SET_FAN_SPEED ==
    <<"S", "E", "T", "_", "F", "A", "N", "_", "S", "P", "E", "E", "D">>

FAN_f1 == <<" ", "F", "A", "N", "=", "f", "1">>

ExtendedPrefixes ==
    { SET_FAN_SPEED,
      SET_FAN_SPEED \o FAN_f1 \o <<" ">>,
      SET_FAN_SPEED \o FAN_f1 \o <<" ", "S", "P", "E", "E", "D", "=", "0">> }

InitExtended ==
    InitWith(UninitDigitCounts, ExtendedPrefixes, {0}, {NUL, "?"}, MaxExtendedBytes)

ScanExtended == \E chunk \in Chunks(ExtendedAlphabet) : ScanChunk(chunk)

NextExtended == ScanExtended \/ Finish \/ Reset

SpecExtended == InitExtended /\ [][NextExtended]_vars

RECURSIVE KeyEnd(_, _)
\* the first index at or after i of an `=`, or Len(w) + 1
KeyEnd(w, i) == IF i <= Len(w) /\ w[i] # "=" THEN KeyEnd(w, i + 1) ELSE i

KeyOf(w) == SubSeq(w, 1, KeyEnd(w, 1) - 1)
ValueOf(w) == SubSeq(w, KeyEnd(w, 1) + 1, Len(w))

\* an argument of the form <name>=<unquoted run>
IsExtendedArg(w) ==
    /\ IsRun(KeyOf(w)) /\ KeyOf(w)[1] \in Letters
    /\ KeyEnd(w, 1) < Len(w)
    /\ IsRun(ValueOf(w))

ExtendedTokens(w) ==
    <<Str([i \in DOMAIN KeyOf(w) |-> ToUpper(KeyOf(w)[i])]), Str(ValueOf(w))>>

TheScenario ==
    SET_FAN_SPEED \o FAN_f1 \o <<" ", "S", "P", "E", "E", "D", "=", "0", ".", "5", NL>>

\* C10 as amended: a SET_FAN_SPEED line whose arguments all have the form
\* <name>=<unquoted run> is scanned in Extended mode and emits the name, then
\* for every argument str(upper-cased name) and the run as a string literal,
\* numeric or not, then end-of-statement; `SET_FAN_SPEED FAN=f1 SPEED=0.5\n`
\* emits ident(SET_FAN_SPEED), str(FAN), str(f1), str(SPEED), str(0.5), eos.
C10_ExtendedValuesAreStrings ==
    /\ (/\ IsLineOf(SET_FAN_SPEED)
        /\ \A i \in DOMAIN ArgsAfter(SET_FAN_SPEED) :
               IsExtendedArg(ArgsAfter(SET_FAN_SPEED)[i]))
       => /\ input[Len(SET_FAN_SPEED) + 1] = " "
                 => lexer.arg_mode = "ARG_EXTENDED"
          /\ Emitted = <<Ident(SET_FAN_SPEED)>>
                 \o Flatten([i \in DOMAIN ArgsAfter(SET_FAN_SPEED) |->
                                ExtendedTokens(ArgsAfter(SET_FAN_SPEED)[i])])
                 \o <<Eos>>
    /\ input = TheScenario
       => Emitted = <<Ident(SET_FAN_SPEED), Str(<<"F", "A", "N">>),
                      Str(<<"f", "1">>), Str(<<"S", "P", "E", "E", "D">>),
                      Str(<<"0", ".", "5">>), Eos>>

\* `SET_FAN_SPEED FAN=f1 SPEED=0.5\n` has been scanned, the value across calls
C10_ScenarioScanned ==
    /\ input = TheScenario
    /\ Len(out) = 6
    /\ lexer.state = "SCAN_NEWLINE"

\* C10 as claimed: `SET_FAN_SPEED FAN=f1 SPEED=0.5\n` emits ident, str(FAN),
\* str(f1), str(SPEED), float(0.5), eos (0.5 is 5 * 10^-1).
C10_ScenarioEmitsFloat ==
    input = TheScenario
    => Emitted = <<Ident(SET_FAN_SPEED), Str(<<"F", "A", "N">>),
                   Str(<<"f", "1">>), Str(<<"S", "P", "E", "E", "D">>),
                   <<"float_literal", <<"10", "5", "-", "1">> >>, Eos>>

----------------------------------------------------------------------------
(* The parser and the lexer it owns: gcode_parser_new, then                *)
(* gcode_parser_parse and gcode_parser_finish, which forward to the lexer; *)
(* every callback of the lexer pushes a token and returns true.            *)

InitParser(prefixes, bytes) ==
    \E d \in UninitDigitCounts, v \in BOOLEAN, p \in prefixes :
        Begin(gcode_lexer_new(d, v),
              gcode_lexer_scan(
                  Machine(gcode_lexer_new(d, v), <<>>, <<>>, 0, 0, NUL), p),
              p, bytes, gcode_parser_new, <<>>)

MaxParserBytes == 3

ParserAlphabet == {"1", "+", "{", "}", "X", " ", NL}

G1_X == G1 \o <<" ", "X">>

G1_X_1_2 == G1_X \o <<"{", "1", "+", "2", "}">>

ParserPrefixes == {<<>>, G1, G1_X, G1_X \o <<"{", "1">>, G1_X_1_2}

InitPair == InitParser(ParserPrefixes, MaxParserBytes)

ScanPair == \E chunk \in Chunks(ParserAlphabet) : ScanChunk(chunk)

NextPair == ScanPair \/ Finish

SpecPair == InitPair /\ [][NextPair]_vars

Keyword(text) == <<"keyword", text>>
IntLit(text) == <<"int_literal", text>>

\* C11: scanning `G1 X{1+2}\n` emits ident("G1"), str("X"), `{`, int(1),
\* `+`, int(2), `}`, eos, and the parser delivers one statement whose
\* argument is concat(str("X"), add(1, 2))
C11_ConcatStatement ==
    input = G1_X_1_2 \o <<NL>> =>
        /\ Emitted = <<Ident(G1), Str(<<"X">>), Keyword(<<"{">>),
                       IntLit(<<"1">>), Keyword(<<"+">>), IntLit(<<"2">>),
                       Keyword(<<"}">>), Eos>>
        /\ parser.statements =
               <<newop2("CONCAT", gcode_str_new(<<"X">>),
                        newop2("ADD", gcode_int_new(<<"1">>),
                               gcode_int_new(<<"2">>)))>>

----------------------------------------------------------------------------
(* Comment lines *)

MaxCommentBytes == 3

CommentAlphabet == {";", " ", "x", "N", DQ, NL}

G28 == <<"G", "2", "8">>

JustAComment ==
    <<";", " ", "j", "u", "s", "t", " ", "a", " ", "c", "o", "m", "m", "e",
      "n", "t">>

CommentPrefixes ==
    {<<>>, JustAComment, JustAComment \o <<NL>> \o G28, G28 \o <<" ">>}

InitComment ==
    InitWith(UninitDigitCounts, CommentPrefixes, {0, 1, 2}, {NUL},
             MaxCommentBytes)

ScanComment == \E chunk \in Chunks(CommentAlphabet) : ScanChunk(chunk)

NextComment == ScanComment \/ Finish \/ Reset

SpecComment == InitComment /\ [][NextComment]_vars

\* C12 as claimed: scanning `; just a comment\nG28\n` emits eos,
\* ident("G28"), eos
C12_CommentLineEmitsEos ==
    input = JustAComment \o <<NL>> \o G28 \o <<NL>> =>
        Emitted = <<Eos, Ident(G28), Eos>>

\* C12 as amended: a comment that opens a line is skipped without a callback
\* (while the lexer is in SCAN_EMPTY_LINE_COMMENT no callback has been made
\* for a byte of the current line), and `; just a comment\nG28\n` emits
\* ident("G28"), eos
C12_CommentLineEmitsNothing ==
    /\ lexer.state = "SCAN_EMPTY_LINE_COMMENT" =>
           \A i \in DOMAIN out : out[i].at < LineStart(Len(input))
    /\ input = JustAComment \o <<NL>> \o G28 \o <<NL>> =>
           Emitted = <<Ident(G28), Eos>>

\* the scenario has been scanned, the last byte in a call of its own
C12_ScenarioScanned ==
    /\ input = JustAComment \o <<NL>> \o G28 \o <<NL>>
    /\ last = "scan"
    /\ left < MaxCommentBytes

----------------------------------------------------------------------------
(* String literals *)

MaxStringBytes == 4

StringAlphabet == {DQ, "x", ";", " ", NUL, NL}

M104 == <<"M", "1", "0", "4">>

M104_S_hot == M104 \o <<" ", "S", DQ, "h", "o", "t">>

M117 == <<"M", "1", "1", "7">>

\* statement openings after which a double quote opens a string literal: in
\* an expression, as a Traditional key or value, as an Extended value, and
\* as the key of the Traditional command M11 that follows an M117
LiteralOpenings ==
    {<<"A", " ", "{">>, G1 \o <<" ">>, G1 \o <<" ", "X">>,
     <<"A", " ", "K", "=">>, M117 \o <<NL, "M", "1", "1", " ">>}

StringPrefixes == LiteralOpenings \cup {<<>>, M104_S_hot}

InitString ==
    InitWith(UninitDigitCounts, StringPrefixes, {0}, {NUL, JUNK},
             MaxStringBytes)

ScanString == \E chunk \in Chunks(StringAlphabet) : ScanChunk(chunk)

NextString == ScanString \/ Finish \/ Reset

SpecString == InitString /\ [][NextString]_vars

\* the error messages raised so far
Messages == [i \in DOMAIN raised |-> raised[i].msg]

\* C13: scanning `M104 S"hot\n` emits ident("M104"), str("S"), the error
\* "Unterminated string" and then an end-of-statement for that line
C13_UnterminatedStringEndsStatement ==
    input = M104_S_hot \o <<NL>> =>
        /\ Emitted = <<Ident(M104), Str(<<"S">>), Eos>>
        /\ Messages = <<<<"Unterminated string">>>>

----------------------------------------------------------------------------
(* Decimal integer literals *)

MaxIntBytes == 3

IntAlphabet == {"0", "6", "9", "}", " ", NL}

A_Expr == <<"A", " ", "{">>

\* openings that end inside a decimal literal of an expression: one digit
\* short of 2^31, of 2^32 and of INT64_MAX, and a short one
IntPrefixes ==
    {A_Expr,
     A_Expr \o <<"1", "2">>,
     A_Expr \o <<"2", "1", "4", "7", "4", "8", "3", "6", "4">>,
     A_Expr \o <<"4", "2", "9", "4", "9", "6", "7", "2", "9">>,
     A_Expr \o <<"9", "2", "2", "3", "3", "7", "2", "0", "3", "6", "8", "5",
                 "4", "7", "7", "5", "8", "0">>}

InitInt ==
    InitWith(UninitDigitCounts, IntPrefixes, {0}, {NUL}, MaxIntBytes)

ScanInt == \E chunk \in Chunks(IntAlphabet) : ScanChunk(chunk)

NextInt == ScanInt \/ Finish \/ Reset

SpecInt == InitInt /\ [][NextInt]_vars

\* where the run of digits that ends at byte p begins
RECURSIVE RunStart(_)
RunStart(p) ==
    IF p > 1 /\ input[p - 1] \in Digits THEN RunStart(p - 1) ELSE p

\* the bytes s as one text
RECURSIVE RunText(_)
RunText(s) == IF s = <<>> THEN "" ELSE Head(s) \o RunText(Tail(s))

\* the decimal literal that ends right before byte p, if that byte ends one:
\* digits with no leading zero that follow `{` or a blank
LiteralBefore(p) == SubSeq(input, RunStart(p - 1), p - 1)

EndsDecimalLiteral(p) ==
    /\ p > 2
    /\ input[p - 1] \in Digits
    /\ RunStart(p - 1) > 1
    /\ input[RunStart(p - 1)] # "0"
    /\ input[RunStart(p - 1) - 1] \in {"{", " "}

\* C14: the integer-literal callback made for a decimal literal of an
\* expression receives exactly the literal's value
C14_IntegerRoundTrip ==
    \A i \in DOMAIN out :
        (out[i].k = "int_literal" /\ EndsDecimalLiteral(out[i].at)) =>
            out[i].v = <<RunText(LiteralBefore(out[i].at))>>

----------------------------------------------------------------------------
(* Plain string literals *)

\* the callbacks made for the bytes after byte p
RECURSIVE CallbacksAfter(_, _)
CallbacksAfter(p, i) ==
    IF i > Len(out) THEN <<>>
    ELSE IF out[i].at > p THEN <<Emitted[i]>> \o CallbacksAfter(p, i + 1)
    ELSE CallbacksAfter(p, i + 1)

\* the input is the opening p followed by the quoted literal "s"
QuotedAfter(p, s) == input = p \o <<DQ>> \o s \o <<DQ>>

\* the texts of at most two bytes with no quote, backslash or newline
PlainTexts(alphabet) ==
    UNION {[1..n -> alphabet \ {DQ, BS, NL}] : n \in 0..2}

\* C15: a quoted literal "s" with no quote, backslash or newline in s makes
\* one string-literal callback, with exactly the bytes of s
C15_PlainStringRoundTrip ==
    \A p \in LiteralOpenings, s \in PlainTexts(StringAlphabet) :
        QuotedAfter(p, s) => CallbacksAfter(Len(p) + 1, 1) = <<Str(s)>>

----------------------------------------------------------------------------
(* Statements of a command name and string fields *)

\* the callbacks are those of one statement: an identifier, string
\* literals, an end-of-statement
NameAndStrings ==
    /\ Len(out) >= 2
    /\ out[1].k = "identifier"
    /\ out[Len(out)].k = "end_statement"
    /\ \A i \in 2..(Len(out) - 1) : out[i].k = "str_literal"

\* C16: the token stream of a command name, string fields and an
\* end-of-line is accepted without a call of the error sink, and the
\* statement delivered holds a node for every field
C16_StatementAccepted ==
    NameAndStrings =>
        /\ parser.errors = <<>>
        /\ Len(parser.statements) = 1
        /\ Len(parser.statements[1]) = Len(out) - 2

----------------------------------------------------------------------------
(* Two lexer/parser pairs of one process, fed in any interleaving.  Pair 1  *)
(* is held in the variables of the single pair, pair 2 in peer.             *)

MaxIsolationBytes == 3

IsolationAlphabet == {"X", "{", "1", " ", NL}

IsolationPrefixes == {<<>>, G1_X}

\* were every lexer created with the first parser as its context
context_of_first(i) == 1

\* lexer->context of pair i: gcode_parser_new creates the lexer with the new
\* parser itself as the context its callbacks are called with
context(i) == i

\* a pair whose lexer, created as lx, has become m by scanning p
PairOf(lx, m, p) ==
    [lexer |-> LexerOf(m), out |-> m.out, raised |-> m.raised, input |-> p,
     start |-> lx, fail |-> m.fail, junk |-> m.junk,
     parser |-> Deliver(gcode_parser_new, m.out, 1)]

NewPair(lx, p) ==
    PairOf(lx, gcode_lexer_scan(Machine(lx, <<>>, <<>>, 0, 0, NUL), p), p)

InitIsolation ==
    \E d \in UninitDigitCounts, v \in BOOLEAN, p, q \in IsolationPrefixes :
        Begin(gcode_lexer_new(d, v),
              gcode_lexer_scan(
                  Machine(gcode_lexer_new(d, v), <<>>, <<>>, 0, 0, NUL), p),
              p, MaxIsolationBytes, gcode_parser_new,
              <<NewPair(gcode_lexer_new(d, v), q)>>)

Self ==
    [lexer |-> lexer, out |-> out, raised |-> raised, input |-> input,
     start |-> start, fail |-> fail, junk |-> junk, parser |-> parser]

Pairs == <<Self>> \o peer

MachineOf(pr) ==
    Machine(pr.lexer, pr.out, pr.raised, Len(pr.input), pr.fail, pr.junk)

\* the lexer of pair i has become m by scanning bytes: its new callbacks
\* have gone to the parser that is its context
Delivered(ps, i, m, bytes) ==
    [[ps EXCEPT ![i].lexer = LexerOf(m), ![i].out = m.out,
                ![i].raised = m.raised, ![i].input = @ \o bytes]
        EXCEPT ![context(i)].parser = Deliver(@, m.out, Len(ps[i].out) + 1)]

Install(ps) ==
    /\ lexer' = ps[1].lexer
    /\ out' = ps[1].out
    /\ raised' = ps[1].raised
    /\ input' = ps[1].input
    /\ parser' = ps[1].parser
    /\ peer' = Tail(ps)
    /\ UNCHANGED <<start, fail, junk>>

\* gcode_parser_parse(parser i, chunk, Len(chunk))
ParsePair(i, chunk) ==
    /\ Len(chunk) <= left
    /\ left' = left - Len(chunk)
    /\ last' = "scan"
    /\ resumed' = Pairs[i].lexer.state
    /\ Install(Delivered(Pairs, i,
                         gcode_lexer_scan(MachineOf(Pairs[i]), chunk), chunk))

\* gcode_parser_finish(parser i)
FinishPair(i) ==
    /\ left > 0
    /\ left' = left - 1
    /\ last' = "finish"
    /\ resumed' = Pairs[i].lexer.state
    /\ Install(Delivered(Pairs, i, gcode_lexer_finish(MachineOf(Pairs[i])),
                         IF Pairs[i].lexer.state # "SCAN_NEWLINE"
                         THEN <<NL>> ELSE <<>>))

NextIsolation ==
    \E i \in {1, 2} :
        \/ \E chunk \in Chunks(IsolationAlphabet) : ParsePair(i, chunk)
        \/ FinishPair(i)

SpecIsolation == InitIsolation /\ [][NextIsolation]_vars

\* the pair run alone: its lexer as created scans the pair's whole input
Alone(pr) ==
    gcode_lexer_scan(Machine(pr.start, <<>>, <<>>, 0, pr.fail, pr.junk),
                     pr.input)

IsolatedPair(pr, m) ==
    /\ pr.out = m.out
    /\ pr.lexer = LexerOf(m)
    /\ pr.parser = Deliver(gcode_parser_new, m.out, 1)

\* C17: however the two pairs are interleaved, the callbacks of each pair,
\* its lexer and its parser (the statements and errors delivered included)
\* are those the pair produces when it is run alone on its own input
C17_InstanceIsolation ==
    \A i \in DOMAIN Pairs : IsolatedPair(Pairs[i], Alone(Pairs[i]))

\* both pairs have been fed, and each has delivered a statement
C17_BothPairsFed ==
    /\ input = <<"X", NL>>
    /\ peer[1].input = G1_X \o <<NL>>
    /\ Len(parser.statements) = 1
    /\ Len(peer[1].parser.statements) = 1

----------------------------------------------------------------------------
(* Reset *)

MaxResetBytes == 5

ResetAlphabet == {"M", "1", " ", NL}

ResetPrefixes == {<<>>, M117, M117 \o <<" ", "x">>}

InitReset ==
    InitWith(UninitDigitCounts, ResetPrefixes, {0}, {NUL, JUNK},
             MaxResetBytes)

ScanReset == \E chunk \in Chunks(ResetAlphabet) : ScanChunk(chunk)

NextReset == ScanReset \/ Finish \/ Reset

SpecReset == InitReset /\ [][NextReset]_vars

\* the kinds and values of the callbacks o
Tokens(o) == [i \in DOMAIN o |-> <<o[i].k, o[i].v>>]

\* what the lexers that gcode_lexer_new can create emit for the bytes
FreshEmissions(bytes) ==
    {Tokens(gcode_lexer_scan(
                Machine(gcode_lexer_new(d, v), <<>>, <<>>, 0, 0, j),
                bytes).out) :
        d \in UninitDigitCounts, v \in BOOLEAN, j \in {NUL, JUNK}}

\* C18: for the input scanned since the last gcode_lexer_reset the lexer
\* has emitted exactly what a freshly created lexer emits for that input
C18_ResetIsFresh == Emitted \in FreshEmissions(input)

----------------------------------------------------------------------------
(* Lexical errors *)

MaxErrorBytes == 3

ErrorAlphabet == {"1", "9", "}", " ", BS, NL}

\* openings that end inside a literal an error can be raised in: a binary,
\* an octal and a decimal literal, the exponents of a decimal and of a
\* hexadecimal float, a string escape
ErrorPrefixes ==
    {A_Expr \o <<"0", "b", "1">>,
     A_Expr \o <<"0", "1">>,
     A_Expr \o <<"1">>,
     A_Expr \o <<"1", "e">>,
     A_Expr \o <<"0", "x", "1", "p">>,
     A_Expr \o <<DQ, BS>>}

InitError ==
    InitWith(UninitDigitCounts, ErrorPrefixes, {0}, {NUL}, MaxErrorBytes)

ScanError == \E chunk \in Chunks(ErrorAlphabet) : ScanChunk(chunk)

NextError == ScanError \/ Finish \/ Reset

SpecError == InitError /\ [][NextError]_vars

\* no newline among the bytes a..b
SameLine(a, b) == \A p \in a..b : input[p] # NL

\* C19: after an error no keyword, identifier, literal or bridge is emitted
\* for a later byte until a newline byte has been scanned
C19_ErrorAbsorbs ==
    \A i \in DOMAIN raised, j \in DOMAIN out :
        (out[j].at > raised[i].at /\ SameLine(raised[i].at, out[j].at - 1))
            => out[j].k = "end_statement"

----------------------------------------------------------------------------
(* Raw mode *)

MaxRawBytes == 3

RawAlphabet == {";", "x", " ", "{", NL}

RawPrefixes == {<<>>, M117 \o <<" ">>, M117 \o <<" ", "x">>}

InitRaw == InitWith(UninitDigitCounts, RawPrefixes, {0}, {NUL}, MaxRawBytes)

ScanRaw == \E chunk \in Chunks(RawAlphabet) : ScanChunk(chunk)

NextRaw == ScanRaw \/ Finish \/ Reset

SpecRaw == InitRaw /\ [][NextRaw]_vars

\* byte p lies on a line that opens with the command M117 and a blank
OnRawLine(p) ==
    /\ LineStart(p) + 4 <= Len(input)
    /\ SubSeq(input, LineStart(p), LineStart(p) + 4) = M117 \o <<" ">>

\* byte p is among the bytes of a string literal emitted for its line
InStrLiteral(p) ==
    \E j \in DOMAIN out :
        /\ out[j].k = "str_literal"
        /\ out[j].at >= p
        /\ LineStart(out[j].at) = LineStart(p)
        /\ input[p] \in Range(out[j].v)

\* C20: on a line of the Raw command M117 the lexer is never in the Comment
\* state, and once the line is complete every `;` of it is in an emitted
\* string literal
C20_RawSemicolon ==
    /\ (input # <<>> /\ OnRawLine(Len(input))) => lexer.state # "SCAN_COMMENT"
    /\ \A p \in DOMAIN input :
           (input[p] = ";" /\ OnRawLine(p) /\ input[Len(input)] = NL)
               => InStrLiteral(p)

----------------------------------------------------------------------------
(* Keys without a value *)

MaxKeyBytes == 3

KeyAlphabet == {"B", "=", ";", " ", NL}

SET == <<"S", "E", "T">>

SET_A == SET \o <<" ", "A">>

\* openings that end in or after a key: of an Extended command, of a
\* Traditional one, and the text of a Raw one
KeyPrefixes ==
    {SET_A, SET_A \o <<" ">>, G1_X, M117 \o <<" ", "A">>}

InitKey == InitWith(UninitDigitCounts, KeyPrefixes, {0}, {NUL}, MaxKeyBytes)

ScanKey == \E chunk \in Chunks(KeyAlphabet) : ScanChunk(chunk)

NextKey == ScanKey \/ Finish \/ Reset

SpecKey == InitKey /\ [][NextKey]_vars

ExpectedEquals == <<"Expected '=' after parameter name">>

\* C21: in Extended mode, when the next non-blank byte after an emitted key
\* is no `=`, the lexer reports "Expected '=' after parameter name" and is
\* in the Error state (in the Newline state when the byte is the newline)
C21_MissingEqualsIsError ==
    \A c \in KeyAlphabet \ {"=", " "} :
        input = SET_A \o <<" ", c>> =>
            /\ Emitted[2] = Str(<<"A">>)
            /\ Messages = <<ExpectedEquals>>
            /\ lexer.state = IF c = NL THEN "SCAN_NEWLINE" ELSE "SCAN_ERROR"

EmptyValue == Str(<<>>)

\* the string literals emitted for the bytes of the line that byte p is on
RECURSIVE StringsOfLine(_, _)
StringsOfLine(p, i) ==
    IF i > Len(out) THEN <<>>
    ELSE IF out[i].k = "str_literal" /\ LineStart(out[i].at) = LineStart(p)
         THEN <<Emitted[i]>> \o StringsOfLine(p, i + 1)
         ELSE StringsOfLine(p, i + 1)

\* the input is the opening p, the byte c, and bytes that start no key
BareKey(p, c) ==
    /\ Len(input) > Len(p)
    /\ SubSeq(input, 1, Len(p) + 1) = p \o <<c>>
    /\ \A q \in (Len(p) + 2)..Len(input) :
           input[q] # "B" /\ LineStart(q) = 1

MaxBridgeBytes == 3
BridgeAlphabet == {"B", "=", "{", "}", " ", NL}
Block_1 == <<"{", "1", "}">>
\* openings that end in an expression block: as an Extended key, as an
\* Extended value and as a Traditional value
BridgePrefixes ==
    {SET \o <<" ">> \o Block_1, SET_A \o <<"=">> \o Block_1, G1_X \o Block_1}
InitBridge ==
    InitWith(UninitDigitCounts, BridgePrefixes, {0}, {NUL}, MaxBridgeBytes)
ScanBridge == \E chunk \in Chunks(BridgeAlphabet) : ScanChunk(chunk)
NextBridge == ScanBridge \/ Finish \/ Reset
SpecBridge == InitBridge /\ [][NextBridge]_vars

Bridge == <<"bridge", <<>>>>
ValueEnd(e) == e[1] = "str_literal" \/ e = Keyword(<<"}">>)
ValueStart(e) == e[1] = "str_literal" \/ e = Keyword(<<"{">>)

\* byte p is the `=` between an Extended key and its value: the first `=`
\* of its argument
Separator(p) ==
    /\ input[p] = "="
    /\ SubSeq(input, LineStart(p), LineStart(p) + 2) = SET
    /\ \E b \in LineStart(p)..(p - 1) :
           /\ input[b] = " "
           /\ \A q \in (b + 1)..(p - 1) : input[q] \notin {" ", "="}

\* C23: a bridge is emitted only where a value-producing token is followed,
\* with no blank in between, by the start of another one -- never at the `=`
\* that separates a key from its value -- and every bridge has a value token
\* right before it and, once the next token is out, right after it
C23_BridgeExactness ==
    \A i \in DOMAIN out :
        Emitted[i] = Bridge =>
            /\ ~Separator(out[i].at)
            /\ i > 1 /\ ValueEnd(Emitted[i - 1])
            /\ i < Len(out) => ValueStart(Emitted[i + 1])

(* Decimal literals beyond the 64-bit range *)

\* the digits of INT64_MAX
INT64_MAX_Text ==
    <<"9", "2", "2", "3", "3", "7", "2", "0", "3", "6", "8", "5", "4", "7",
      "7", "5", "8", "0", "7">>

\* of two digit texts of one length, s is the greater number
RECURSIVE TextGreater(_, _)
TextGreater(s, t) ==
    IF s = <<>> THEN FALSE
    ELSE IF Head(s) # Head(t) THEN DigitVal(Head(s)) > DigitVal(Head(t))
    ELSE TextGreater(Tail(s), Tail(t))

\* the number written by digits s, with no leading zero, is above INT64_MAX
AboveInt64(s) ==
    \/ Len(s) > Len(INT64_MAX_Text)
    \/ Len(s) = Len(INT64_MAX_Text) /\ TextGreater(s, INT64_MAX_Text)

\* the number written by digits s, when it is not above INT64_MAX
\* taken four digits at a time
RECURSIVE ValueOfDigits(_)
ValueOfDigits(s) ==
    IF Len(s) <= 4 THEN Int64(DecimalValue(s, 0))
    ELSE I64MulAdd(ValueOfDigits(SubSeq(s, 1, Len(s) - 4)), 10000,
                   DecimalValue(SubSeq(s, Len(s) - 3, Len(s)), 0))

\* C24: while a decimal literal is scanned the lexer is in the float state
\* exactly when the digits read so far are above INT64_MAX; until then the
\* accumulator is the value of the digits read, at most INT64_MAX; and a
\* literal above INT64_MAX is emitted as a float, any other as an integer
C24_OverflowSwitchesToFloat ==
    /\ (/\ lexer.state \in {"SCAN_DECIMAL", "SCAN_DECIMAL_FLOAT"}
        /\ EndsDecimalLiteral(Len(input) + 1)) =>
           LET run == LiteralBefore(Len(input) + 1)
           IN /\ lexer.state = "SCAN_DECIMAL_FLOAT" <=> AboveInt64(run)
              /\ lexer.state = "SCAN_DECIMAL" =>
                     /\ lexer.int_value = ValueOfDigits(run)
                     /\ ~I64Greater(lexer.int_value, INT64_MAX)
    /\ \A i \in DOMAIN out :
           (/\ out[i].k \in {"int_literal", "float_literal"}
            /\ EndsDecimalLiteral(out[i].at)) =>
               (out[i].k = "float_literal"
                    <=> AboveInt64(LiteralBefore(out[i].at)))

\* a literal one above INT64_MAX has been emitted, as a float
C24_FloatEmitted ==
    \E i \in DOMAIN out :
           /\ out[i].k = "float_literal"
           /\ LiteralBefore(out[i].at) = [INT64_MAX_Text EXCEPT ![19] = "9"]
           /\ input[out[i].at] = "}"

(* Symbols of an expression *)
MaxSymbolBytes == 3
SymbolAlphabet == {"*", "=", "<", "+", "1", "}"}
InitSymbol ==
    InitWith(UninitDigitCounts, {A_Expr, A_Expr \o <<"1">>}, {0}, {NUL},
             MaxSymbolBytes)
ScanSymbol == \E chunk \in Chunks(SymbolAlphabet) : ScanChunk(chunk)
NextSymbol == ScanSymbol \/ Finish \/ Reset
SpecSymbol == InitSymbol /\ [][NextSymbol]_vars

TwoCharacterSymbols == {<<"*", "*">>, <<"<", "=">>, <<">", "=">>}

\* C25: a symbol emitted inside an expression is one or two characters long,
\* and one of two characters is `**`, `<=` or `>=`
C25_SymbolLength ==
    \A i \in DOMAIN out :
        (out[i].k = "keyword" /\ out[i].v # <<>>
             /\ is_symbol_char(out[i].v[1])) =>
            \/ Len(out[i].v) = 1
            \/ out[i].v \in TwoCharacterSymbols

(* Words of an expression *)
MaxWordBytes == 3
WordAlphabet == {"f", "F", "o", "R", " ", "}"}
InitWord ==
    InitWith(UninitDigitCounts, {A_Expr, A_Expr \o <<"i">>, A_Expr \o <<"I">>},
             {0}, {NUL}, MaxWordBytes)
ScanWord == \E chunk \in Chunks(WordAlphabet) : ScanChunk(chunk)
NextWord == ScanWord \/ Finish \/ Reset
SpecWord == InitWord /\ [][NextWord]_vars

Upcase(s) == [i \in DOMAIN s |-> ToUpper(s[i])]

\* the word s of an expression spells a reserved word, in whatever case
Reserved(s) == gcode_keyword_lookup(Upcase(s), Len(s)) # 0

\* C26: a word of an expression that spells a reserved word in any letter
\* case is not delivered through the identifier callback (the first
\* identifier of the line is the command name)
C26_ReservedWordIsKeyword ==
    \A i \in DOMAIN out :
        (i > 1 /\ out[i].k = "identifier") => ~Reserved(out[i].v)

(* Token texts *)

\* C27: the text handed to the keyword callback is exactly the bytes of its
\* token: the input bytes that end right before the byte at which the
\* callback is made or, for `{` and `}`, that byte itself
C27_TokenTextIsToken ==
    \A i \in DOMAIN out :
        out[i].k = "keyword" =>
            \/ out[i].v = <<input[out[i].at]>>
            \/ /\ out[i].at > Len(out[i].v)
               /\ out[i].v = SubSeq(input, out[i].at - Len(out[i].v),
                                    out[i].at - 1)

(* Digits of string escapes *)
MaxEscapeBytes == 4
EscapeAlphabet == {"0", "f", "G", DQ, NL}
U_Escape == G1_X \o <<DQ, BS, "u">>
X_Escape == G1_X \o <<DQ, BS, "x">>
InitEscape ==
    InitWith(UninitDigitCounts, {U_Escape, X_Escape}, {0}, {NUL},
             MaxEscapeBytes)
ScanEscape == \E chunk \in Chunks(EscapeAlphabet) : ScanChunk(chunk)
NextEscape == ScanEscape \/ Finish \/ Reset
SpecEscape == InitEscape /\ [][NextEscape]_vars

\* C28: `\u` followed by four characters of which one is outside 0-9, a-f
\* and A-F is an error
C28_UnicodeEscapeDigits ==
    \A d \in [1..4 -> EscapeAlphabet] :
        (input = U_Escape \o d /\ \E i \in 1..4 : d[i] \notin StrtodHex) =>
            Messages # <<>>

(* Exponents *)
MaxExponentBytes == 3
ExponentAlphabet == {"5", "-", "+", "}", " "}
\* openings that end at an exponent marker: after the digit 1, after the
\* digit 0, and after the digit 0 on the line that follows a hexadecimal
\* literal
ExponentPrefixes ==
    {A_Expr \o <<"1", "e">>,
     A_Expr \o <<"0", "e">>,
     A_Expr \o <<"0", "x", "}", NL>> \o A_Expr \o <<"0", "e">>}
InitExponent ==
    InitWith(UninitDigitCounts, ExponentPrefixes, {0}, {NUL},
             MaxExponentBytes)
ScanExponent == \E chunk \in Chunks(ExponentAlphabet) : ScanChunk(chunk)
NextExponent == ScanExponent \/ Finish \/ Reset
SpecExponent == InitExponent /\ [][NextExponent]_vars

\* the callbacks made for the literal that begins in the opening p
LiteralsAfter(p) ==
    SelectSeq(CallbacksAfter(Len(p) - 2, 1),
              LAMBDA e : e[1] \in {"int_literal", "float_literal"})

\* C29: an exponent marker followed by no digit, with or without a sign,
\* yields no literal and an error; one followed by a digit, with or without
\* `-`, yields a float literal and no error
C29_ExponentDigits ==
    \A p \in ExponentPrefixes, t \in {"}", " "} :
        /\ \A sign \in {<<>>, <<"-">>, <<"+">>} :
               input = p \o sign \o <<t>> =>
                   LiteralsAfter(p) = <<>> /\ Messages # <<>>
        /\ \A sign \in {<<>>, <<"-">>} :
               input = p \o sign \o <<"5", t>> =>
                   /\ Len(LiteralsAfter(p)) = 1
                   /\ LiteralsAfter(p)[1][1] = "float_literal"
                   /\ Messages = <<>>

(* Line numbers *)
MaxLinenoBytes == 4
LinenoAlphabet == {"N", "O", "1", " ", NL}
InitLineno ==
    InitWith(UninitDigitCounts, {<<>>, <<"N">>}, {0}, {NUL}, MaxLinenoBytes)
ScanLineno == \E chunk \in Chunks(LinenoAlphabet) : ScanChunk(chunk)
NextLineno == ScanLineno \/ Finish \/ Reset
SpecLineno == InitLineno /\ [][NextLineno]_vars

\* the first word of the input ends right before byte k, begins with N and
\* has a byte after the N that is no digit
WordWithN(k) ==
    /\ input[k] \in {" ", NL}
    /\ \A q \in 1..(k - 1) : input[q] \notin {" ", NL}
    /\ input[1] = "N"
    /\ \E q \in 2..(k - 1) : input[q] \notin Digits

\* C30: a first word that begins with N and is not N<digits> is not taken
\* for a line number: it is emitted as the command name
C30_WordIsCommandName ==
    \A k \in 3..Len(input) :
        WordWithN(k) =>
            out # <<>> /\ Emitted[1] = Ident(SubSeq(input, 1, k - 1))

----------------------------------------------------------------------------
(* The parser alone: a caller pushes tokens as the callbacks lex_keyword,  *)
(* lex_identifier, lex_string_literal, lex_int_literal and                 *)
(* lex_float_literal do, one yypush_parse per token.  Here input is the    *)
(* history of the tokens pushed and left the number of tokens to come.     *)

\* a pushed token: its number, its YYSTYPE and the token buffer at the call
IntToken(text) ==
    [id |-> TOK_INTEGER, val |-> NumberValue(<<text>>), str |-> <<text>>]
StringToken(text) == [id |-> TOK_STRING, val |-> PointerValue, str |-> text]
IdentifierToken(text) ==
    [id |-> TOK_IDENTIFIER, val |-> PointerValue, str |-> text]
KeywordToken(text) ==
    [id |-> gcode_keyword_lookup(text, Len(text)), val |-> NULL, str |-> text]
LBRACE == [id |-> TOK_LBRACE, val |-> NULL, str |-> <<"{">>]
RBRACE == [id |-> TOK_RBRACE, val |-> NULL, str |-> <<"}">>]
EOL == [id |-> TOK_EOL, val |-> NULL, str |-> <<>>]

\* the tokens ts[i..] are pushed in order
RECURSIVE PushAll(_, _, _)
PushAll(p, ts, i) ==
    IF i > Len(ts) THEN p
    ELSE PushAll(yypush_parse(p, ts[i].id, ts[i].val, ts[i].str), ts, i + 1)

\* a new parser whose caller has already pushed one of some openings
InitTokens(prefixes, tokens) ==
    \E p \in prefixes :
        /\ start = gcode_lexer_new(0, FALSE)
        /\ lexer = start
        /\ out = <<>>
        /\ raised = <<>>
        /\ input = p
        /\ fail = 0
        /\ junk = NUL
        /\ left = tokens
        /\ last = "new"
        /\ resumed = start.state
        /\ parser = PushAll(gcode_parser_new, p, 1)
        /\ peer = <<>>

PushToken(t) ==
    /\ left > 0
    /\ left' = left - 1
    /\ parser' = yypush_parse(parser, t.id, t.val, t.str)
    /\ input' = Append(input, t)
    /\ UNCHANGED <<lexer, out, raised, start, fail, junk, last, resumed, peer>>

(* Associativity *)
MaxPowerTokens == 6
One == IntToken("1")
Two == IntToken("2")
Three == IntToken("3")
POWER == KeywordToken(<<"*", "*">>)
MINUS == KeywordToken(<<"-">>)
X_Field == StringToken(<<"X">>)
PowerTokens == {Two, Three, POWER, MINUS, RBRACE, EOL}
InitPower == InitTokens({<<X_Field, LBRACE, One>>}, MaxPowerTokens)
NextPower == \E t \in PowerTokens : PushToken(t)
SpecPower == InitPower /\ [][NextPower]_vars

IntNode(text) == gcode_int_new(<<text>>)
X_Is(expr) == gcode_add_next(gcode_str_new(<<"X">>), expr)
Chain(op) == <<X_Field, LBRACE, One, op, Two, op, Three, RBRACE, EOL>>

\* C31: the tokens X { 1 ** 2 ** 3 } EOL deliver POWER(1, POWER(2, 3)), and
\* X { 1 - 2 - 3 } EOL deliver SUBTRACT(SUBTRACT(1, 2), 3)
C31_PowerIsRightAssociative ==
    /\ input = Chain(POWER) =>
           parser.statements =
               <<X_Is(newop2("POWER", IntNode("1"),
                             newop2("POWER", IntNode("2"), IntNode("3"))))>>
    /\ input = Chain(MINUS) =>
           parser.statements =
               <<X_Is(newop2("SUBTRACT",
                             newop2("SUBTRACT", IntNode("1"), IntNode("2")),
                             IntNode("3")))>>

(* Precedence *)
MaxPrecedenceTokens == 5
PLUS == KeywordToken(<<"+">>)
TIMES == KeywordToken(<<"*">>)
LT == KeywordToken(<<"<">>)
NOT == KeywordToken(<<"!">>)
PrecedenceTokens == {Two, Three, PLUS, TIMES, LT, RBRACE, EOL}
X_Expr == <<X_Field, LBRACE>>
PrecedencePrefixes ==
    {X_Expr \o <<One, PLUS>>, X_Expr \o <<One, LT>>, X_Expr \o <<NOT, One>>}
InitPrecedence == InitTokens(PrecedencePrefixes, MaxPrecedenceTokens)
NextPrecedence == \E t \in PrecedenceTokens : PushToken(t)
SpecPrecedence == InitPrecedence /\ [][NextPrecedence]_vars

\* the statement X{ts} has been pushed and delivered as X and the tree expr
Reduces(ts, expr) ==
    input = X_Expr \o ts \o <<RBRACE, EOL>> =>
        parser.statements = <<X_Is(expr)>>

\* C32: 1 + 2 < 3 reduces to LT(ADD(1, 2), 3), 1 < 2 + 3 to
\* LT(1, ADD(2, 3)), 1 + 2 * 3 to ADD(1, MULTIPLY(2, 3)) and ! 1 < 2 to
\* NOT(LT(1, 2))
C32_Precedence ==
    /\ Reduces(<<One, PLUS, Two, LT, Three>>,
               newop2("LT", newop2("ADD", IntNode("1"), IntNode("2")),
                      IntNode("3")))
    /\ Reduces(<<One, LT, Two, PLUS, Three>>,
               newop2("LT", IntNode("1"),
                      newop2("ADD", IntNode("2"), IntNode("3"))))
    /\ Reduces(<<One, PLUS, Two, TIMES, Three>>,
               newop2("ADD", IntNode("1"),
                      newop2("MULTIPLY", IntNode("2"), IntNode("3"))))
    /\ Reduces(<<NOT, One, LT, Two>>,
               gcode_operator_new("NOT",
                   newop2("LT", IntNode("1"), IntNode("2"))))

(* Recovery from a syntax error *)
MaxRecoveryTokens == 4
RecoveryTokens == {X_Field, One, PLUS, LBRACE, EOL}
\* openings that end in a syntax error: an operator where a field is due,
\* and a second literal where an operator is due
ErrorOpenings == {<<X_Field, PLUS>>, <<X_Field, LBRACE, One, One>>}
InitRecovery == InitTokens(ErrorOpenings, MaxRecoveryTokens)
NextRecovery == \E t \in RecoveryTokens : PushToken(t)
SpecRecovery == InitRecovery /\ [][NextRecovery]_vars

\* input is the opening p, tokens other than EOL, an EOL, then the tokens s
AfterError(p, s) ==
    \E k \in (Len(p) + 1)..Len(input) :
        /\ SubSeq(input, 1, Len(p)) = p
        /\ \A q \in (Len(p) + 1)..(k - 1) : input[q] # EOL
        /\ input[k] = EOL
        /\ SubSeq(input, k + 1, Len(input)) = s

Recovered(s) == \E p \in ErrorOpenings : AfterError(p, s)

\* C33: the EOL that follows a syntax error leaves the state stack holding
\* the start state alone, and the statement pushed next is delivered as a
\* new parser delivers it
C33_RecoveryRestoresStart ==
    /\ Recovered(<<>>) => parser.yyss = <<0>>
    /\ \A t \in {X_Field, One} :
           Recovered(<<t, EOL>>) =>
               parser.statements[Len(parser.statements)] =
                   PushAll(gcode_parser_new, <<t, EOL>>, 1).statements[1]

(* Diagnostics while recovering *)

\* yyerrstatus as the next yypush_parse finds it
Recovering(p) == IF p.yynew THEN 0 ELSE p.yyerrstatus

SyntaxError == <<"syntax error">>

\* one yypush_parse: the sink is called only when the counter is zero, and
\* then the counter is 3, or 2 when the token was the EOL that ends the
\* statement; with no call the counter goes down by one, or an error that
\* is not reported sets it again
ReportsWhenZero ==
    /\ parser'.errors # parser.errors =>
           /\ Recovering(parser) = 0
           /\ parser'.errors = Append(parser.errors, SyntaxError)
           /\ parser'.yyerrstatus \in {2, 3}
    /\ parser'.errors = parser.errors =>
           \/ /\ Recovering(parser) = 0
              /\ parser'.yyerrstatus = 0
           \/ /\ Recovering(parser) > 0
              /\ parser'.yyerrstatus \in {Recovering(parser) - 1, 2, 3}

\* an erroneous line, then a line with the error after j fields
ErrorAfter(j) ==
    <<X_Field, PLUS, EOL>> \o [i \in 1..j |-> X_Field] \o <<PLUS>>

\* C34: a syntax error is reported exactly when the recovery counter is
\* zero; an error sets the counter to 3 and each shifted token takes one
\* off, so the error of the line after an erroneous one is reported when
\* two fields precede it and is not when fewer do
C34_DiagnosticsAfterError ==
    /\ [][ReportsWhenZero]_vars
    /\ [](/\ \A j \in {0, 1} :
                 input = ErrorAfter(j) => parser.errors = <<SyntaxError>>
          /\ input = ErrorAfter(2) =>
                 parser.errors = <<SyntaxError, SyntaxError>>)

\* the line after an erroneous one has a syntax error that is not reported
C34_SilentError ==
    /\ input = ErrorAfter(0)
    /\ parser.errors = <<SyntaxError>>
    /\ parser.yyerrstatus = 3

(* Empty lines at the parser *)

MaxEmptyLineTokens == 4

EmptyLineTokens == {X_Field, One, LBRACE, RBRACE, EOL}

InitEmptyLine == InitTokens({<<>>}, MaxEmptyLineTokens)

NextEmptyLine == \E t \in EmptyLineTokens : PushToken(t)

SpecEmptyLine == InitEmptyLine /\ [][NextEmptyLine]_vars

\* the parser that has been pushed the tokens ts and nothing else
Pushed(ts) == PushAll(gcode_parser_new, ts, 1)

\* C35: an EOL pushed where a statement starts calls no statement sink and
\* leaves the state stack as it was, the start state alone for a parser
\* that has seen nothing else
C35_EmptyLineIsNoOp ==
    /\ input = <<EOL>> =>
           /\ parser.statements = <<>>
           /\ parser.yyss = <<0>>
    /\ input = <<X_Field, EOL, EOL>> =>
           /\ parser.statements = Pushed(<<X_Field, EOL>>).statements
           /\ parser.yyss = Pushed(<<X_Field, EOL>>).yyss

(* The parser after many lines *)

MaxDeepTokens == 3

DeepMargin == 1

DeepTokens == {X_Field, One, LBRACE, EOL}

\* yystacksize once the stacks have held len entries
RECURSIVE Grown(_, _)
Grown(size, len) ==
    IF len < size THEN size
    ELSE Grown(IF YYMAXDEPTH < 2 * size THEN YYMAXDEPTH ELSE 2 * size, len)

OneLine == Pushed(<<X_Field, EOL>>)

\* the tokens of n lines X
LineTokens(n) == [i \in 1..(2 * n) |-> IF i % 2 = 1 THEN X_Field ELSE EOL]

\* the parser that has been pushed n lines X, n > 0: every line has left
\* its state and its value on the stacks and has been delivered
Lines(n) ==
    [OneLine EXCEPT
         !.yyss = <<OneLine.yyss[1]>> \o [i \in 1..n |-> OneLine.yyss[2]],
         !.yyvs = <<OneLine.yyvs[1]>> \o [i \in 1..n |-> OneLine.yyvs[2]],
         !.yystacksize = Grown(YYINITDEPTH, n + 2),
         !.statements = [i \in 1..n |-> OneLine.statements[1]]]

InitDeep ==
    \E k \in 0..DeepMargin :
        /\ start = gcode_lexer_new(0, FALSE)
        /\ lexer = start
        /\ out = <<>>
        /\ raised = <<>>
        /\ input = LineTokens(YYMAXDEPTH - 3 - k)
        /\ fail = 0
        /\ junk = NUL
        /\ left = MaxDeepTokens
        /\ last = "new"
        /\ resumed = start.state
        /\ parser = Lines(YYMAXDEPTH - 3 - k)
        /\ peer = <<>>

NextDeep == \E t \in DeepTokens : PushToken(t)

SpecDeep == InitDeep /\ [][NextDeep]_vars

\* the tokens of ts that belong to the statement of its last token
RECURSIVE StatementOf(_, _)
StatementOf(ts, i) ==
    IF i = 0 \/ ts[i] = EOL THEN <<>>
    ELSE Append(StatementOf(ts, i - 1), ts[i])

\* the depth that the start state, the fields and the expression levels of
\* the statement of the last token of ts account for
DepthOfStatement(ts) == 2 + Len(StatementOf(ts, Len(ts) - 1))

MemoryExhausted == <<"memory exhausted">>

\* one yypush_parse that reports memory exhausted: the push would have
\* exceeded the maximum, no statement is delivered and the parser is new
ExhaustedByStatement ==
    parser'.errors = Append(parser.errors, MemoryExhausted) =>
        /\ DepthOfStatement(input') > YYMAXDEPTH
        /\ parser'.statements = parser.statements
        /\ parser'.yynew

\* C36: the stacks never hold more than YYMAXDEPTH entries, and memory
\* exhausted is reported only when the fields and the expression levels of
\* one statement would exceed that depth; no statement is then delivered
\* and the parser restarts
C36_StackExhaustion ==
    /\ [](Len(parser.yyss) <= YYMAXDEPTH)
    /\ [][ExhaustedByStatement]_vars

(* Looking strings up in the keyword table *)

MaxLookups == 2

MaxLookupBytes == 2

LookupAlphabet == {"[", "]", "{", "}", "<", "=", "*", "I", "F", "i", "x"}

LookupWords ==
    {<<"T", "R", "U", "E">>, <<"F", "A", "L", "S", "E">>, <<"N", "A", "N">>,
     <<"n", "a", "n">>, <<"N", "A", "N", "X">>, <<"E", "L", "S", "E">>,
     <<"e", "l", "s", "e">>, <<"A", "N", "D">>, <<"A", "N", "D", "S">>,
     <<"O", "R">>, <<"o", "r">>, <<"I", "N", "F", "I", "N", "I", "T", "Y">>,
     <<"I", "N", "F", "I", "N", "I", "T", "E">>, <<NL>>, <<"~">>, <<"!">>}

LookupStrings ==
    LookupWords \cup UNION {[1..n -> LookupAlphabet] : n \in 1..MaxLookupBytes}

InitLookup ==
    /\ start = gcode_lexer_new(0, FALSE)
    /\ lexer = start
    /\ out = <<>>
    /\ raised = <<>>
    /\ input = <<>>
    /\ fail = 0
    /\ junk = NUL
    /\ left = MaxLookups
    /\ last = "new"
    /\ resumed = start.state
    /\ parser = gcode_parser_new
    /\ peer = <<>>

\* gcode_keyword_lookup(str, strlen(str)): input is the string and out the
\* id of the entry returned
Lookup(str) ==
    /\ left > 0
    /\ left' = left - 1
    /\ input' = str
    /\ out' = <<[k |-> "lookup", id |-> gcode_keyword_lookup(str, Len(str))]>>
    /\ UNCHANGED <<lexer, raised, start, fail, junk, last, resumed, parser,
                   peer>>

NextLookup == \E str \in LookupStrings : Lookup(str)

SpecLookup == InitLookup /\ [][NextLookup]_vars

\* the literals of the keyword set: those of the table, the brackets, the
\* braces and the truth values
Literals ==
    {wordlist[i].name : i \in {j \in DOMAIN wordlist : wordlist[j].id # 0}}
        \cup {<<"[">>, <<"]">>, <<"{">>, <<"}">>, <<"T", "R", "U", "E">>,
              <<"F", "A", "L", "S", "E">>}

\* C37: a literal of the keyword set is found, with its token id, and every
\* other string is not
C37_LookupFindsLiterals ==
    out # <<>> =>
        IF input \in Literals
        THEN out[1].id = KeywordId(input)
             /\ out[1].id \in TOK_IDENTIFIER..(TOK_BRIDGE + 1)
        ELSE out[1].id = 0

(* Statements and their command names *)

MaxStatementBytes == 4

StatementAlphabet == {"A", "N", " ", NL, ";", DQ}

InitStatement ==
    InitWith(UninitDigitCounts, {<<>>, <<"A", " ", "B">>}, {0}, {NUL},
             MaxStatementBytes)

ScanStatement == \E chunk \in Chunks(StatementAlphabet) : ScanChunk(chunk)

NextStatement == ScanStatement \/ Finish

SpecStatement == InitStatement /\ [][NextStatement]_vars

\* the index of the first emission after the end of statement before out[i]
RECURSIVE StatementStart(_)
StatementStart(i) ==
    IF i = 1 \/ out[i - 1].k = "end_statement" THEN i
    ELSE StatementStart(i - 1)

\* out[m] is an identifier and the first emission of its line
CommandName(m) ==
    /\ out[m].k = "identifier"
    /\ \A q \in 1..(m - 1) : LineStart(out[q].at) # LineStart(out[m].at)

\* C38: the emissions that an end of statement closes begin with a command
\* name and hold no other command name
C38_OneCommandNamePerStatement ==
    \A i \in DOMAIN out :
        out[i].k = "end_statement" =>
            {m \in StatementStart(i)..(i - 1) : CommandName(m)}
                = {StatementStart(i)}

(* The text of the tokens the parser holds *)

TextNames == {<<"b">>, <<"c">>, <<"x">>, <<"y">>}

TextOperators == {"+", "-", "*", "/", "<"}

\* a line whose one field is the expression name op 1
TextLine(name, op) == <<"A", " ", "{">> \o name \o <<op, "1", "}", NL>>

\* the lexer has scanned one line; left counts the callbacks it made after
\* the command name that the parser has not been handed yet
InitText ==
    \E name \in TextNames, op \in TextOperators :
        /\ start = gcode_lexer_new(0, FALSE)
        /\ lexer = LexerOf(gcode_lexer_scan(
                        Machine(start, <<>>, <<>>, 0, 0, NUL),
                        TextLine(name, op)))
        /\ out = gcode_lexer_scan(Machine(start, <<>>, <<>>, 0, 0, NUL),
                                  TextLine(name, op)).out
        /\ raised = <<>>
        /\ input = TextLine(name, op)
        /\ fail = 0
        /\ junk = NUL
        /\ left = Len(out) - 1
        /\ last = "scan"
        /\ resumed = start.state
        /\ parser = gcode_parser_new
        /\ peer = <<>>

\* the next callback: the parser is pushed the token
Callback ==
    /\ left > 0
    /\ left' = left - 1
    /\ parser' = lex_callback(parser, out[Len(out) - left + 1])
    /\ UNCHANGED <<lexer, out, raised, input, start, fail, junk, last,
                   resumed, peer>>

NextText == Callback

SpecText == InitText /\ [][NextText]_vars

OperatorOf(op) ==
    CASE op = "+" -> "ADD"
      [] op = "-" -> "SUBTRACT"
      [] op = "*" -> "MULTIPLY"
      [] op = "/" -> "DIVIDE"
      [] op = "<" -> "LT"

MaxBufferBytes == 3

BufferMargin == 1

BufferAlphabet == {"X", " ", NL}

\* a command name of n bytes, not yet ended
LongName(n) == [i \in 1..n |-> "X"]

\* nothing scanned, and names that fill the buffer as first allocated, or
\* as grown once, to within BufferMargin bytes
BufferPrefixes ==
    {<<>>} \cup {LongName(token_alloc(gcode_lexer_new(0, FALSE)).token_limit
                              * g - k) : g \in {1, 2}, k \in 0..BufferMargin}

MaxPieceBytes == 64

\* the caller scans a prefix in pieces of at most MaxPieceBytes bytes
RECURSIVE ScanPieces(_, _)
ScanPieces(m, p) ==
    IF Len(p) <= MaxPieceBytes THEN gcode_lexer_scan(m, p)
    ELSE ScanPieces(gcode_lexer_scan(m, SubSeq(p, 1, MaxPieceBytes)),
                    SubSeq(p, MaxPieceBytes + 1, Len(p)))

InitBuffer ==
    \E p \in BufferPrefixes :
        Begin(gcode_lexer_new(0, FALSE),
              ScanPieces(Machine(gcode_lexer_new(0, FALSE), <<>>, <<>>, 0, 0,
                                 NUL), p),
              p, MaxBufferBytes, yypstate_new(FALSE), <<>>)

ScanBuffer == \E chunk \in Chunks(BufferAlphabet) : ScanChunk(chunk)

NextBuffer == ScanBuffer \/ Finish \/ Reset

SpecBuffer == InitBuffer /\ [][NextBuffer]_vars

\* 0, or the first allocation doubled some number of times
RECURSIVE Capacity(_)
Capacity(n) ==
    \/ n = 0
    \/ n = token_alloc(gcode_lexer_new(0, FALSE)).token_limit
    \/ n > 0 /\ n % 2 = 0 /\ Capacity(n \div 2)

\* one call: the capacity changes only by growing to the next size, at a
\* byte appended to a full buffer, and a reset leaves the buffer alone
GrowsWhenFull ==
    /\ lexer'.token_limit # lexer.token_limit =>
           /\ lexer'.token_limit = token_alloc(lexer).token_limit
           /\ last' # "reset"
           /\ lexer.token_length + (Len(input') - Len(input))
                  > lexer.token_limit
    /\ last' = "reset" => lexer'.token_str = lexer.token_str

\* C40: token_length never exceeds token_limit, token_limit is 0 or 128
\* doubled some number of times, and it changes only by doubling when a
\* byte is appended to a full buffer, never by a reset or between tokens
C40_BufferCapacity ==
    /\ [](lexer.token_length <= lexer.token_limit
          /\ Capacity(lexer.token_limit))
    /\ [][GrowsWhenFull]_vars

\* a name one byte longer than the first allocation has been scanned after
\* the prefix that filled it, and the buffer, grown once, holds the first
\* byte of the next line
C40_GrownBufferReused ==
    /\ input = LongName(token_alloc(gcode_lexer_new(0, FALSE)).token_limit + 1)
                   \o <<NL, "X">>
    /\ lexer.token_limit
           = 2 * token_alloc(gcode_lexer_new(0, FALSE)).token_limit
    /\ lexer.token_length = 1

============================================================================
